---- MODULE Spec2Model ----
(***************************************************************************)
(* State machine of the browser client of the text-snippet answer          *)
(* generator: the App component (Ask, Refine, scope and option state),     *)
(* the request bodies built by api.ts and the requests in flight.          *)
(*                                                                         *)
(* Conventions.  A nullable value is a sequence of length 0 (null) or 1.   *)
(* A text the code trims is a sequence of one-character strings.  A        *)
(* confidence is an integer percentage (0..100), the closeness slider a    *)
(* number of tenths (0..10).                                               *)
(***************************************************************************)
EXTENDS Integers, Sequences, FiniteSets, TLC

VARIABLES
  token,              \* App: token state (string | null)
  storedToken,        \* localStorage["auth_token"]
  question,           \* App: question input text
  loading,            \* App: an Ask is running
  error,              \* App: error message | null
  result,             \* App: AskResponse | null
  refining,           \* App: a Refine is running
  contextSourceIds,   \* App: sources toggled to "Included"
  originalQuestion,   \* App: trimmed question of the last Ask
  scopeMode,          \* App: "all" | "groups" | "snippets"
  selectedGroupNames, \* App: groups ticked in the scope selector
  selectedSnippetIds, \* App: snippets ticked in the scope selector
  answerCloseness,    \* App: slider value, in tenths
  useHyde,            \* App: HyDE checkbox
  useKeywordRerank,   \* App: keyword-rerank checkbox
  questionLanguage,   \* App: language filter, "" = all languages
  groups,             \* App: group names loaded from the backend
  snippetsForScope,   \* App: snippets loaded for the scope selector
  groupsFetch,        \* a getGroups request is in flight
  snippetsFetch,      \* a getSnippets(500, 0) request is in flight
  askCall,            \* the handleAsk call awaiting its response | null
  refineCall,         \* the handleRefine call awaiting its response | null
  shownAsk,           \* history: question of the Ask whose sources `result` holds
  overlapAsk,         \* history: the Ask started while a Refine was in flight
  user,               \* App: User | null
  tab,                \* App: "ask" | "collection" | "users"
  meCalls,            \* Authorization headers of the getMe requests in flight
  loginRegister,      \* LoginRegister component state | null (not rendered)
  authCall,           \* the login / register request in flight | null
  badge,              \* the ConfidenceBadge rendered last | null
  selectedGroups,     \* App: groups ticked in the sidebar (Collection filter)
  collectionView,     \* CollectionView component state | null (not rendered)
  listCalls,          \* refresh() calls of the rendered CollectionView in flight
  deleteCalls,        \* deleteSnippet requests in flight
  orphanCalls,        \* kinds of the calls of unmounted CollectionViews in flight
  deleted,            \* backend: ids of the snippets deleted
  theme,              \* App: theme state ("light" | "dark" | "system")
  storedTheme,        \* localStorage["theme"] (any string | null)
  dark,               \* document.documentElement has the class "dark"
  prefersDark,        \* matchMedia("(prefers-color-scheme: dark)").matches
  mediaListener,      \* App's "change" listener is registered on the media query
  storageOk,          \* localStorage can be accessed (else it throws)
  chosenTheme,        \* history: the theme selected last in ThemeToggle | null
  startTheme,         \* history: the theme the app was started with last
  synthesis,          \* backend: the last Ask it answered (provider, response) | null
  otherCalls,         \* listUsers / openDocumentInNewTab calls in flight
  caught,             \* the Error their caller's catch handled last | null
  inFlight,           \* history: ask() / refineAnswer() calls awaiting their response
  sourceToEdit,       \* App: the source whose Edit button was clicked | null
  editModal,          \* EditSnippetModal component state | null
  updateCalls         \* updateSnippet requests in flight

vars == <<token, storedToken, question, loading, error, result, refining,
          contextSourceIds, originalQuestion, scopeMode, selectedGroupNames,
          selectedSnippetIds, answerCloseness, useHyde, useKeywordRerank,
          questionLanguage, groups, snippetsForScope, groupsFetch,
          snippetsFetch, askCall, refineCall, shownAsk, overlapAsk, user, tab,
          meCalls, loginRegister, authCall, badge, selectedGroups,
          collectionView, listCalls, deleteCalls, orphanCalls, deleted,
          theme, storedTheme, dark, prefersDark, mediaListener, storageOk,
          chosenTheme, startTheme, synthesis, otherCalls, caught,
          inFlight, sourceToEdit, editModal, updateCalls>>

authVars == <<token, storedToken>>
scopeVars == <<scopeMode, selectedGroupNames, selectedSnippetIds>>
optionVars == <<answerCloseness, useHyde, useKeywordRerank, questionLanguage>>
listVars == <<groups, snippetsForScope, groupsFetch, snippetsFetch>>
askVars == <<question, loading, error, result, contextSourceIds,
             originalQuestion, askCall, shownAsk, overlapAsk>>
refineVars == <<refining, refineCall>>
\* What a change of `token` re-renders or re-runs an effect on.
collectionVars == <<collectionView, listCalls, deleteCalls, orphanCalls>>
mountVars == <<user, meCalls, loginRegister, collectionVars>>
\* The state the Ask page's handlers never touch.
themeVars == <<theme, storedTheme, dark, prefersDark, mediaListener,
               storageOk, chosenTheme, startTheme>>
\* The state no handler of a page or of the session touches.
\* The state of the components outside the Ask and Collection pages.
editVars == <<sourceToEdit, editModal, updateCalls>>
extraVars == <<caught, editVars>>
restVars == <<themeVars, synthesis, otherCalls, extraVars, inFlight>>
pageVars == <<tab, authCall, badge, selectedGroups, deleted, restVars>>
\* The state a call of ask() or refineAnswer() and its response leave alone,
\* apart from the Ask page's.
callRestVars == <<tab, authCall, badge, selectedGroups, deleted, themeVars,
                  synthesis, otherCalls, extraVars>>
\* The state of the session and of the Ask page.
askStateVars == <<askVars, refineVars, scopeVars, optionVars, listVars>>
askPageVars == <<authVars, askStateVars, mountVars>>

----------------------------------------------------------------------------
(* Values *)

Null == <<>>
Some(x) == <<x>>
Range(s) == {s[i] : i \in 1..Len(s)}

\* Number of snippets the backend holds.
MaxSnippets == 2
SnippetIds == 1..MaxSnippets

\* The closeness slider: min 0, max 1, step 0.1, initial value 0.5.
SliderMax == 10
DefaultCloseness == 5

LanguageCodes == {"", "de", "en", "fr", "it"}
ScopeModes == {"all", "groups", "snippets"}

\* The access tokens the backend issues: one of an ordinary account, one of
\* an administrator's.
AUTH_TOKEN == "jwt"
ADMIN_TOKEN == "jwt-admin"
Tokens == {AUTH_TOKEN, ADMIN_TOKEN}
Tabs == {"ask", "collection", "users"}
BACKEND_UNREACHABLE_MSG == "Cannot reach the backend. Is the server running on port 8000?"

\* String.prototype.trim on a sequence of characters.
RECURSIVE TrimStart(_)
TrimStart(s) == IF s # <<>> /\ Head(s) = " " THEN TrimStart(Tail(s)) ELSE s

RECURSIVE TrimEnd(_)
TrimEnd(s) ==
  IF s # <<>> /\ s[Len(s)] = " " THEN TrimEnd(SubSeq(s, 1, Len(s) - 1)) ELSE s

Trim(s) == TrimEnd(TrimStart(s))

\* prev.includes(x) ? prev.filter(y => y !== x) : [...prev, x]
Toggle(prev, x) ==
  IF x \in Range(prev) THEN SelectSeq(prev, LAMBDA y : y # x) ELSE Append(prev, x)

Source(i, c) == [id |-> i, snippet_confidence |-> c]

SourceIds(sources) == {sources[i].id : i \in 1..Len(sources)}


MaxConfidence(sources) ==
  IF sources = <<>> THEN 0
  ELSE CHOOSE c \in {sources[i].snippet_confidence : i \in 1..Len(sources)} :
         \A j \in 1..Len(sources) : sources[j].snippet_confidence <= c

----------------------------------------------------------------------------
(* The backend, seen from the client *)

\* POST /api/ask answers with an AskResponse: two snippets ranked by
\* descending confidence, one snippet only, or no snippet at all.
AskResponses ==
  { [answer |-> "a1", sources |-> <<Source(1, 85), Source(2, 20)>>, answer_confidence |-> 85],
    [answer |-> "a2", sources |-> <<Source(2, 60)>>, answer_confidence |-> 60],
    [answer |-> "none", sources |-> <<>>, answer_confidence |-> 0] }

\* The three ways a fetch of an authenticated endpoint fails: fetch rejects
\* (TypeError), the status is 401, or the status is another non-2xx one.
FailureKinds == {"network", "unauthorized", "http"}

\* The sources a refinement is grounded in: the selected ones, or all of them
\* when none is selected.
Grounding(body) ==
  IF body.selected_source_ids # <<>>
  THEN SelectSeq(body.sources,
                 LAMBDA s : s.id \in Range(body.selected_source_ids))
  ELSE body.sources

RefinedAnswers == {"r1", "r2"}

\* POST /api/refine: a new answer, the sources handed in, and a confidence no
\* higher than the best grounding source's.
RefineResponses(body) ==
  LET top == MaxConfidence(Grounding(body)) IN
  { [answer |-> a, sources |-> body.sources, answer_confidence |-> c] :
      a \in RefinedAnswers, c \in {top, top \div 2} }

\* The texts of the stored snippets.
SnippetText(i) ==
  CASE i = 1 -> "Refund window is 30 days."
    [] i = 2 -> "Shipping takes 3-5 days."
    [] OTHER -> "Returns need a receipt."

\* The confidences the scorer gives a candidate, in percent.
CandidateConfidences == {20, 60, 85}

\* A candidate of an Ask: a snippet with its text and its confidence.
Candidate(i, c) == [id |-> i, text |-> SnippetText(i), snippet_confidence |-> c]

\* The candidate sets of an Ask: any snippets, each id once, any confidences.
CandidateSets ==
  UNION { {{Candidate(i, conf[i]) : i \in ids} :
             conf \in [ids -> CandidateConfidences]} :
          ids \in SUBSET SnippetIds }

\* The rankings of a candidate set: every candidate once, by non-increasing
\* confidence (candidates of equal confidence in any order).
Rankings(candidates) ==
  { ranked \in [1..Cardinality(candidates) -> candidates] :
      /\ \A i, j \in DOMAIN ranked : i < j =>
           /\ ranked[i] # ranked[j]
           /\ ranked[i].snippet_confidence >= ranked[j].snippet_confidence }

\* The generation capability of the backend: none configured, configured
\* but not reachable, or available.
Providers == {"none", "unreachable", "available"}

GeneratedAnswers == {"g1", "g2"}

\* Mutant of Synthesize: the fallback reports half the top confidence.
SynthesizeHalved(ranked, provider) ==
  IF ranked = <<>>
  THEN {[answer |-> "", sources |-> <<>>, answer_confidence |-> 0]}
  ELSE IF provider # "available"
  THEN {[answer |-> ranked[1].text, sources |-> ranked,
         answer_confidence |-> ranked[1].snippet_confidence \div 2]}
  ELSE {[answer |-> a, sources |-> ranked, answer_confidence |-> c] :
          a \in GeneratedAnswers,
          c \in {ranked[1].snippet_confidence,
                 ranked[1].snippet_confidence \div 2}}

\* Answer Synthesizer: without candidates the empty result; without a
\* generation capability the top-ranked source's text and confidence; else a
\* generated answer with a confidence no higher than the top source's.
Synthesize(ranked, provider) ==
  IF ranked = <<>>
  THEN {[answer |-> "", sources |-> <<>>, answer_confidence |-> 0]}
  ELSE IF provider # "available"
  THEN {[answer |-> ranked[1].text, sources |-> ranked,
         answer_confidence |-> ranked[1].snippet_confidence]}
  ELSE {[answer |-> a, sources |-> ranked, answer_confidence |-> c] :
          a \in GeneratedAnswers,
          c \in {ranked[1].snippet_confidence,
                 ranked[1].snippet_confidence \div 2}}

\* top_k of the Retriever, scaled down.
TopK == 2

\* The similarity scores of a hit, in percent.
HitScores == {20, 85}

\* A hit of the vector search: the snippet that owns the matched vector, the
\* vector matched (the snippet's text or one of its example questions), and
\* the similarity.
Hit(i, via, score) == [snippet |-> i, via |-> via, score |-> score]

\* The snippets searched: one more than top_k; the first has example
\* questions.
SearchIds == 1..(TopK + 1)
HitVectors == (SearchIds \X {"text"}) \cup ({1} \X {"example"})

\* The hit sets of a search: each vector hit with a score, or not at all
\* (score 0 below).
HitSets ==
  { {Hit(k[1], k[2], scores[k]) : k \in {x \in HitVectors : scores[x] > 0}} :
      scores \in [HitVectors -> {0} \cup HitScores] }

\* The first `n` elements of a sequence, or all of it.
Take(seq, n) == SubSeq(seq, 1, IF Len(seq) < n THEN Len(seq) ELSE n)

\* The hits merged by owning snippet, the higher score kept.
Merged(hits) ==
  { Candidate(i, CHOOSE c \in {h.score : h \in {x \in hits : x.snippet = i}} :
                    \A h \in hits : h.snippet = i => h.score <= c) :
      i \in {h.snippet : h \in hits} }

\* The ranking of the Retriever: descending similarity, ties by snippet id.
Ranked(candidates) ==
  CHOOSE ranked \in Rankings(candidates) :
    \A i, j \in DOMAIN ranked :
      (i < j /\ ranked[i].snippet_confidence = ranked[j].snippet_confidence)
        => ranked[i].id < ranked[j].id

\* Mutant of Retrieve: every merged hit is returned.
RetrieveAll(hits) == Ranked(Merged(hits))

\* Mutant of Retrieve: the hits are not merged, each becomes a source.
RetrieveUnmerged(hits) ==
  LET bytext == Ranked({Candidate(h.snippet, h.score) :
                          h \in {x \in hits : x.via = "text"}})
      byexample == Ranked({Candidate(h.snippet, h.score) :
                             h \in {x \in hits : x.via = "example"}})
  IN Take(bytext \o byexample, TopK)

\* Retriever: up to top_k snippets of the merged hits, in ranking order.
Retrieve(hits) == Take(Ranked(Merged(hits)), TopK)

----------------------------------------------------------------------------
(* api.ts *)

\* LoginRegister's state when it is mounted.
NewLoginRegister ==
  [mode |-> "login", email |-> <<>>, password |-> <<>>, error |-> Null,
   loading |-> FALSE, registerSuccess |-> FALSE]

\* The effect on [token], run when the token state has changed: getMe() with
\* the Authorization header of the stored token, or setUser(null).
TokenEffect ==
  IF token' = token
  THEN UNCHANGED <<user, meCalls>>
  ELSE IF token' # Null
       THEN /\ meCalls' = meCalls \cup {storedToken'}
            /\ UNCHANGED user
       ELSE /\ user' = Null
            /\ UNCHANGED meCalls

\* App renders LoginRegister instead of the main screen while token is null.
LoginRegisterFollows ==
  loginRegister' = IF token' # Null THEN Null
                   ELSE IF token # Null THEN Some(NewLoginRegister)
                   ELSE loginRegister

\* CollectionView's state when it is mounted.
NewCollectionView ==
  [snippets |-> <<>>, loading |-> TRUE, error |-> Null,
   selectedLanguages |-> <<>>, showTranslations |-> FALSE,
   snippetToDelete |-> Null, deleting |-> FALSE, addModal |-> Null,
   modalCount |-> 0, uploads |-> {}]

\* The query of getSnippets(500, 0, groups, languages, includeTranslations):
\* an empty list and a false flag add no parameter.
ListParams(grps, languages, translations) ==
  [group |-> grps, language |-> languages, include_translations |-> translations]

\* A refresh() call in flight: its query, and whether handleDelete awaits it.
ListCall(params, afterDelete) == [params |-> params, afterDelete |-> afterDelete]

\* The calls an unmounted view leaves in flight, by kind: "list" a refresh(),
\* "deleteList" the refresh() handleDelete awaits, "upload" an
\* uploadSnippets(...) of one of its AddSnippetModals.
Orphaned(view, calls) ==
  {IF c.afterDelete THEN "deleteList" ELSE "list" : c \in calls}
    \cup (IF view # Null /\ view[1].uploads # {} THEN {"upload"} ELSE {})

\* CollectionView and its calls after a step: `view`, `calls`, `dcalls` and
\* `orphans` while the view stays rendered (`shown`); unmounted otherwise, its
\* calls left to settle without it.
CollectionBecomes(shown, view, calls, dcalls, orphans) ==
  IF shown
  THEN /\ collectionView' = view
       /\ listCalls' = calls
       /\ deleteCalls' = dcalls
       /\ orphanCalls' = orphans
  ELSE /\ collectionView' = Null
       /\ listCalls' = {}
       /\ deleteCalls' = {[c EXCEPT !.live = FALSE] : c \in dcalls}
       /\ orphanCalls' = orphans \cup Orphaned(view, calls)

\* App renders CollectionView while logged in on the tab "collection"; a
\* view that is mounted runs refresh() with the filters it starts with.
CollectionFollows(newTab) ==
  LET shown == token' # Null /\ newTab = "collection" IN
  IF shown /\ collectionView = Null
  THEN CollectionBecomes(TRUE, Some(NewCollectionView),
         listCalls \cup {ListCall(ListParams(selectedGroups, <<>>, FALSE), FALSE)},
         deleteCalls, orphanCalls)
  ELSE CollectionBecomes(shown, collectionView, listCalls, deleteCalls,
                         orphanCalls)

\* What follows a change of the token state or of the tab (`newTab` is the
\* tab after the step): the token effect and the components (un)mounted.
Remount(newTab) ==
  /\ TokenEffect
  /\ LoginRegisterFollows
  /\ CollectionFollows(newTab)

\* Array.prototype.join with the separator `sep`.
RECURSIVE Join(_, _)
Join(list, sep) ==
  IF list = <<>> THEN <<>>
  ELSE IF Len(list) = 1 THEN list[1]
  ELSE list[1] \o sep \o Join(Tail(list), sep)

\* snippet.metadata?.[key] ?? "" (and, for a list, its entries joined).
MetadataField(metadata, key) ==
  IF metadata # Null /\ key \in DOMAIN metadata[1] THEN metadata[1][key] ELSE <<>>

\* App.sourceToSnippet: the snippet EditSnippetModal is given for a source.
sourceToSnippet(source) ==
  [id |-> source.id, text |-> source.text, metadata |-> source.metadata]

\* EditSnippetModal's state when it is mounted for `snippet`.
NewEditSnippetModal(snippet) ==
  [text |-> snippet.text, loading |-> FALSE, message |-> Null,
   language |-> MetadataField(snippet.metadata, "language"),
   heading |-> MetadataField(snippet.metadata, "heading"),
   category |-> MetadataField(snippet.metadata, "category"),
   linkedSnippets |->
     Join(MetadataField(snippet.metadata, "linked_snippets"), <<",", " ">>),
   exampleQuestions |->
     Join(MetadataField(snippet.metadata, "example_questions"), <<"\n">>)]

\* App renders EditSnippetModal on the Ask page while sourceToEdit is set.
EditShown(tok, t, source) == tok # Null /\ t = "ask" /\ source # Null

\* The requests of an EditSnippetModal that is unmounted: they are left to
\* settle without it, and are no longer told apart.
Stale(calls) == IF calls = {} THEN {} ELSE {[live |-> FALSE]}

\* An EditSnippetModal that is mounted again starts from the snippet; the
\* requests of the instance before it no longer reach a mounted component.
EditFollows(newTab) ==
  IF EditShown(token', newTab, sourceToEdit) /\ ~EditShown(token, tab, sourceToEdit)
  THEN /\ editModal' = Some(NewEditSnippetModal(sourceToSnippet(sourceToEdit[1])))
       /\ updateCalls' = Stale(updateCalls)
  ELSE UNCHANGED <<editModal, updateCalls>>

\* App renders UsersView for an admin on the tab "users" while logged in.
UsersShown(tok, usr, t) ==
  tok # Null /\ usr # Null /\ usr[1].role = "admin" /\ t = "users"

\* A UsersView that is mounted runs loadUsers(), which calls listUsers().
UsersFollows(newTab) ==
  otherCalls' = IF UsersShown(token', user', newTab) /\ ~UsersShown(token, user, tab)
                THEN otherCalls \cup {"listUsers"}
                ELSE otherCalls

\* Mutant of Unauthorized: the token is cleared, the callback is not called.
UnauthorizedNoCallback(kind) ==
  IF kind = "unauthorized"
  THEN /\ storedToken' = Null
       /\ UNCHANGED <<token, user, meCalls, loginRegister>>
  ELSE UNCHANGED <<authVars, user, meCalls, loginRegister>>

\* api.ts checkUnauthorized: clearToken(); onUnauthorized() on a 401, nothing
\* otherwise.
Unauthorized(kind) ==
  IF kind = "unauthorized"
  THEN /\ storedToken' = Null
       /\ token' = Null
       /\ TokenEffect
       /\ LoginRegisterFollows
  ELSE UNCHANGED <<authVars, user, meCalls, loginRegister>>

\* checkUnauthorized in a call made outside CollectionView, with what App
\* renders after it.
checkUnauthorized(kind) ==
  /\ Unauthorized(kind)
  /\ CollectionFollows(tab)

\* The message handleAsk / handleRefine put in `error` for a failure of `kind`:
\* the unreachable-backend text for a network error, else the thrown Error's
\* message (the response text, or "<what> failed: <status>").
ErrorMessage(kind, what) ==
  CASE kind = "network" -> BACKEND_UNREACHABLE_MSG
    [] kind = "unauthorized" /\ what = "Ask" -> "Ask failed: 401"
    [] kind = "unauthorized" /\ what = "Refine" -> "Refine failed: 401"
    [] kind = "http" /\ what = "Ask" -> "Ask failed: 500"
    [] kind = "unauthorized" /\ what = "Snippets" -> "Snippets failed: 401"
    [] kind = "http" /\ what = "Snippets" -> "Snippets failed: 500"
    [] kind = "unauthorized" /\ what = "Delete" -> "Unauthorized"
    [] kind = "http" /\ what = "Delete" -> "Not Found"
    [] OTHER -> "Refine failed: 500"

\* Mutant of AskOptions: both selections are passed on, whatever the mode.
AskOptionsBothSelections ==
  [groupNames |-> Some(selectedGroupNames),
   snippetIds |-> Some(selectedSnippetIds),
   answerCloseness |-> Some(answerCloseness),
   useHyde |-> Some(useHyde),
   useKeywordRerank |-> Some(useKeywordRerank),
   languages |-> IF questionLanguage # "" THEN Some(<<questionLanguage>>)
                 ELSE Null]

\* The options object handleAsk builds (an absent key is Null).
AskOptions ==
  LET scope ==
        IF scopeMode = "groups" /\ Len(selectedGroupNames) # 0
        THEN [groupNames |-> Some(selectedGroupNames), snippetIds |-> Null]
        ELSE IF scopeMode = "snippets" /\ Len(selectedSnippetIds) # 0
             THEN [groupNames |-> Null, snippetIds |-> Some(selectedSnippetIds)]
             ELSE [groupNames |-> Null, snippetIds |-> Null]
  IN [groupNames |-> scope.groupNames,
      snippetIds |-> scope.snippetIds,
      answerCloseness |-> Some(answerCloseness),
      useHyde |-> Some(useHyde),
      useKeywordRerank |-> Some(useKeywordRerank),
      languages |-> IF questionLanguage # "" THEN Some(<<questionLanguage>>)
                    ELSE Null]

\* options?.xs?.length ? xs : (key left out)
NonEmptyList(opt) == IF opt # Null /\ Len(opt[1]) # 0 THEN opt ELSE Null

\* Mutant of AskBody: the options are tested for truthiness instead of
\* `!== undefined`, so a closeness of 0 and a false flag are left out.
AskBodyTruthyOnly(q, options) ==
  [question |-> q,
   group_names |-> NonEmptyList(options.groupNames),
   snippet_ids |-> NonEmptyList(options.snippetIds),
   languages |-> NonEmptyList(options.languages),
   answer_closeness |-> IF options.answerCloseness = Some(0) THEN Null
                        ELSE options.answerCloseness,
   use_hyde |-> IF options.useHyde = Some(FALSE) THEN Null
                ELSE options.useHyde,
   use_keyword_rerank |-> IF options.useKeywordRerank = Some(FALSE) THEN Null
                          ELSE options.useKeywordRerank]

\* The JSON body ask() posts (an absent key is Null).
AskBody(q, options) ==
  [question |-> q,
   group_names |-> NonEmptyList(options.groupNames),
   snippet_ids |-> NonEmptyList(options.snippetIds),
   languages |-> NonEmptyList(options.languages),
   answer_closeness |-> options.answerCloseness,
   use_hyde |-> options.useHyde,
   use_keyword_rerank |-> options.useKeywordRerank]

\* Mutant of RefineBody: the closeness is sent as the percentage the page
\* shows beside the slider.
RefineBodyPercent(options) ==
  [original_question |-> options.originalQuestion,
   original_answer |-> options.originalAnswer,
   refinement_prompt |-> options.refinementPrompt,
   selected_source_ids |-> options.selectedSourceIds,
   sources |-> options.sources,
   answer_closeness |-> options.answerCloseness * 10]

\* The JSON body refineAnswer() posts.
RefineBody(options) ==
  [original_question |-> options.originalQuestion,
   original_answer |-> options.originalAnswer,
   refinement_prompt |-> options.refinementPrompt,
   selected_source_ids |-> options.selectedSourceIds,
   sources |-> options.sources,
   answer_closeness |-> options.answerCloseness]


----------------------------------------------------------------------------
(* App *)

\* What the user can type into the question box and the refinement box.
Questions == { <<>>, <<" ", "x", " ">>, <<"y">> }
Prompts == { <<" ">>, <<"p", " ">> }

NoOverlap == [st |-> "none", expect |-> Null]

Init ==
  /\ storedToken \in {Null, Some(AUTH_TOKEN)}
  /\ token = storedToken
  /\ question = <<>>
  /\ loading = FALSE
  /\ error = Null
  /\ result = Null
  /\ refining = FALSE
  /\ contextSourceIds = <<>>
  /\ originalQuestion = <<>>
  /\ scopeMode = "all"
  /\ selectedGroupNames = <<>>
  /\ selectedSnippetIds = <<>>
  /\ answerCloseness = DefaultCloseness
  /\ useHyde = FALSE
  /\ useKeywordRerank = TRUE
  /\ questionLanguage = ""
  /\ groups = <<>>
  /\ snippetsForScope = <<>>
  /\ groupsFetch = TRUE
  /\ snippetsFetch = FALSE
  /\ askCall = Null
  /\ refineCall = Null
  /\ shownAsk = Null
  /\ overlapAsk = NoOverlap
  /\ user = Null
  /\ tab = "ask"
  /\ meCalls = IF token # Null THEN {storedToken} ELSE {}
  /\ loginRegister = IF token # Null THEN Null ELSE Some(NewLoginRegister)
  /\ authCall = Null
  /\ badge = Null
  /\ selectedGroups = <<>>
  /\ collectionView = Null
  /\ listCalls = {}
  /\ deleteCalls = {}
  /\ orphanCalls = {}
  /\ deleted = {}
  /\ theme = "system"
  /\ storedTheme = Some("system")
  /\ dark = FALSE
  /\ prefersDark = FALSE
  /\ mediaListener = TRUE
  /\ storageOk = TRUE
  /\ chosenTheme = Null
  /\ startTheme = "system"
  /\ synthesis = Null
  /\ otherCalls = {}
  /\ caught = Null
  /\ inFlight = [ask |-> 0, refine |-> 0]
  /\ sourceToEdit = Null
  /\ editModal = Null
  /\ updateCalls = {}

\* The main screen is rendered (otherwise LoginRegister is).
LoggedIn == token # Null

\* The Ask page is rendered: the main screen with the tab "ask".
AskPageShown == LoggedIn /\ tab = "ask"

\* AnswerCard (with its source cards and refinement form) is rendered.
AnswerCardShown == AskPageShown /\ ~loading /\ result # Null

\* LoginRegister.handleSubmit in login mode through a successful response,
\* as one step, for the account the backend issues `access` to: the token is
\* stored, then onSuccess().
LoginAs(access) ==
  /\ ~LoggedIn
  /\ authCall = Null
  /\ storedToken' = Some(access)
  /\ token' = storedToken'
  /\ Remount(tab)
  /\ UsersFollows(tab)
  /\ EditFollows(tab)
  /\ UNCHANGED <<askVars, refineVars, scopeVars, optionVars, listVars, tab,
                 authCall, badge, selectedGroups, deleted, themeVars,
                 synthesis, caught, sourceToEdit, inFlight>>

\* A login of an ordinary account.
Login == LoginAs(AUTH_TOKEN)

\* Sidebar onLogout: clearToken(); setTokenState(null).
Logout ==
  /\ LoggedIn
  /\ storedToken' = Null
  /\ token' = Null
  /\ Remount(tab)
  /\ UNCHANGED <<askVars, refineVars, scopeVars, optionVars, listVars,
                 pageVars>>

\* QuestionInput onChange (the input is disabled while loading).
SetQuestion(v) ==
  /\ AskPageShown
  /\ ~loading
  /\ question' = v
  /\ UNCHANGED <<authVars, mountVars, pageVars, loading, error, result, contextSourceIds,
                 originalQuestion, askCall, shownAsk, overlapAsk, refineVars,
                 scopeVars, optionVars, listVars>>

\* Mutant of handleAsk: the question is tested and sent untrimmed.
handleAskUntrimmed ==
  LET q == question IN
  IF q = <<>>
  THEN UNCHANGED vars
  ELSE /\ error' = Null
       /\ result' = Null
       /\ loading' = TRUE
       /\ contextSourceIds' = <<>>
       /\ originalQuestion' = q
       /\ askCall' = Some([body |-> AskBody(q, AskOptions)])
       /\ shownAsk' = Null
       /\ overlapAsk' = IF refineCall # Null
                        THEN [st |-> "pending", expect |-> Null]
                        ELSE NoOverlap
       /\ inFlight' = [inFlight EXCEPT !.ask = @ + 1]
       /\ UNCHANGED <<authVars, mountVars, callRestVars, question, refineVars,
                      scopeVars, optionVars, listVars>>

\* Mutant of handleAsk: the previous result is not cleared.
handleAskKeepsResult ==
  LET q == Trim(question) IN
  IF q = <<>>
  THEN UNCHANGED vars
  ELSE /\ error' = Null
       /\ loading' = TRUE
       /\ contextSourceIds' = <<>>
       /\ originalQuestion' = q
       /\ askCall' = Some([body |-> AskBody(q, AskOptions)])
       /\ shownAsk' = Null
       /\ overlapAsk' = IF refineCall # Null
                        THEN [st |-> "pending", expect |-> Null]
                        ELSE NoOverlap
       /\ inFlight' = [inFlight EXCEPT !.ask = @ + 1]
       /\ UNCHANGED <<authVars, mountVars, callRestVars, question, result,
                      refineVars, scopeVars, optionVars, listVars>>

handleAsk ==
  LET q == Trim(question) IN
  IF q = <<>>
  THEN UNCHANGED vars
  ELSE /\ error' = Null
       /\ result' = Null
       /\ loading' = TRUE
       /\ contextSourceIds' = <<>>
       /\ originalQuestion' = q
       /\ askCall' = Some([body |-> AskBody(q, AskOptions)])
       /\ shownAsk' = Null
       /\ overlapAsk' = IF refineCall # Null
                        THEN [st |-> "pending", expect |-> Null]
                        ELSE NoOverlap
       /\ inFlight' = [inFlight EXCEPT !.ask = @ + 1]
       /\ UNCHANGED <<authVars, mountVars, callRestVars, question, refineVars, scopeVars, optionVars,
                      listVars>>

\* Mutant of SubmitQuestion: the form is not disabled while loading.
SubmitQuestionWhileLoading ==
  /\ AskPageShown
  /\ handleAsk

\* QuestionInput onSubmit (input and button are disabled while loading).
SubmitQuestion ==
  /\ AskPageShown
  /\ ~loading
  /\ handleAsk

\* handleAsk, after `await ask(...)` resolved.
AskOk(data) ==
  /\ askCall # Null
  /\ result' = Some(data)
  /\ loading' = FALSE
  /\ askCall' = Null
  /\ shownAsk' = Some(askCall[1].body.question)
  /\ overlapAsk' = IF overlapAsk.st = "pending"
                   THEN [st |-> "done", expect |-> Some(data)]
                   ELSE overlapAsk
  /\ inFlight' = [inFlight EXCEPT !.ask = @ - 1]
  /\ UNCHANGED <<authVars, mountVars, callRestVars, question, error, contextSourceIds,
                 originalQuestion, refineVars, scopeVars, optionVars, listVars>>

\* Mutant of AskFail: loading is not reset when ask() threw.
AskFailNoFinally(kind) ==
  /\ askCall # Null
  /\ checkUnauthorized(kind)
  /\ error' = Some(ErrorMessage(kind, "Ask"))
  /\ askCall' = Null
  /\ overlapAsk' = IF overlapAsk.st = "pending"
                   THEN [st |-> "done", expect |-> Null]
                   ELSE overlapAsk
  /\ inFlight' = [inFlight EXCEPT !.ask = @ - 1]
  /\ UNCHANGED <<callRestVars, question, loading, result, contextSourceIds,
                 originalQuestion, shownAsk, refineVars, scopeVars, optionVars,
                 listVars>>

\* handleAsk, after `await ask(...)` threw.
AskFail(kind) ==
  /\ askCall # Null
  /\ checkUnauthorized(kind)
  /\ error' = Some(ErrorMessage(kind, "Ask"))
  /\ loading' = FALSE
  /\ askCall' = Null
  /\ overlapAsk' = IF overlapAsk.st = "pending"
                   THEN [st |-> "done", expect |-> Null]
                   ELSE overlapAsk
  /\ inFlight' = [inFlight EXCEPT !.ask = @ - 1]
  /\ UNCHANGED <<callRestVars, question, result, contextSourceIds, originalQuestion,
                 shownAsk, refineVars, scopeVars, optionVars, listVars>>

\* SourceCard "Include" button of a displayed source.
handleToggleContextSource(id) ==
  /\ AnswerCardShown
  /\ id \in SourceIds(result[1].sources)
  /\ contextSourceIds' = Toggle(contextSourceIds, id)
  /\ UNCHANGED <<authVars, mountVars, pageVars, question, loading, error, result,
                 originalQuestion, askCall, shownAsk, overlapAsk, refineVars,
                 scopeVars, optionVars, listVars>>

\* Mutant of handleRefine: setRefining(true) runs before the result check.
handleRefineFlagFirst(refinementPrompt) ==
  IF result = Null
  THEN /\ refining' = TRUE
       /\ UNCHANGED <<authVars, mountVars, pageVars, askVars, refineCall, scopeVars, optionVars,
                      listVars>>
  ELSE /\ refining' = TRUE
       /\ error' = Null
       /\ refineCall' =
            Some([body |-> RefineBody(
                    [originalQuestion |-> originalQuestion,
                     originalAnswer |-> result[1].answer,
                     refinementPrompt |-> refinementPrompt,
                     selectedSourceIds |-> contextSourceIds,
                     sources |-> result[1].sources,
                     answerCloseness |-> answerCloseness]),
                  result |-> result[1],
                  shown |-> shownAsk])
       /\ overlapAsk' = NoOverlap
       /\ UNCHANGED <<authVars, mountVars, pageVars, question, loading, result, contextSourceIds,
                      originalQuestion, askCall, shownAsk, scopeVars,
                      optionVars, listVars>>

handleRefine(refinementPrompt) ==
  IF result = Null
  THEN UNCHANGED vars
  ELSE /\ refining' = TRUE
       /\ error' = Null
       /\ refineCall' =
            Some([body |-> RefineBody(
                    [originalQuestion |-> originalQuestion,
                     originalAnswer |-> result[1].answer,
                     refinementPrompt |-> refinementPrompt,
                     selectedSourceIds |-> contextSourceIds,
                     sources |-> result[1].sources,
                     answerCloseness |-> answerCloseness]),
                  result |-> result[1],
                  shown |-> shownAsk])
       /\ overlapAsk' = NoOverlap
       /\ inFlight' = [inFlight EXCEPT !.refine = @ + 1]
       /\ UNCHANGED <<authVars, mountVars, callRestVars, question, loading, result, contextSourceIds,
                      originalQuestion, askCall, shownAsk, scopeVars,
                      optionVars, listVars>>

\* AnswerRefinement.handleSubmit with `prompt` typed in (loading = refining).
RefinementSubmit(prompt) ==
  LET trimmed == Trim(prompt) IN
  IF trimmed # <<>> /\ ~refining
  THEN handleRefine(trimmed)
  ELSE UNCHANGED vars

\* The refinement form is part of AnswerCard, rendered while !loading && result;
\* handleRefine's own `if (!result) return` is reached by a call with no result.
SubmitRefinement(prompt) ==
  /\ AskPageShown
  /\ ~loading
  /\ RefinementSubmit(prompt)

\* Mutant of RefineOk: the confidence shown before is kept.
RefineOkKeepsConfidence(refined) ==
  /\ refineCall # Null
  /\ result' = Some([answer |-> refined.answer,
                     sources |-> refineCall[1].result.sources,
                     answer_confidence |-> refineCall[1].result.answer_confidence])
  /\ refining' = FALSE
  /\ refineCall' = Null
  /\ shownAsk' = refineCall[1].shown
  /\ inFlight' = [inFlight EXCEPT !.refine = @ - 1]
  /\ UNCHANGED <<authVars, mountVars, callRestVars, question, loading, error, contextSourceIds,
                 originalQuestion, askCall, overlapAsk, scopeVars, optionVars,
                 listVars>>

\* handleRefine, after `await refineAnswer(...)` resolved.
RefineOk(refined) ==
  /\ refineCall # Null
  /\ result' = Some([answer |-> refined.answer,
                     sources |-> refineCall[1].result.sources,
                     answer_confidence |-> refined.answer_confidence])
  /\ refining' = FALSE
  /\ refineCall' = Null
  /\ shownAsk' = refineCall[1].shown
  /\ inFlight' = [inFlight EXCEPT !.refine = @ - 1]
  /\ UNCHANGED <<authVars, mountVars, callRestVars, question, loading, error, contextSourceIds,
                 originalQuestion, askCall, overlapAsk, scopeVars, optionVars,
                 listVars>>

\* Mutant of RefineFail: setRefining(false) sits in the try block, not in
\* `finally`, so a failure leaves the flag set.
RefineFailNoFinally(kind) ==
  /\ refineCall # Null
  /\ checkUnauthorized(kind)
  /\ error' = Some(ErrorMessage(kind, "Refine"))
  /\ refineCall' = Null
  /\ inFlight' = [inFlight EXCEPT !.refine = @ - 1]
  /\ UNCHANGED <<callRestVars, question, loading, result, contextSourceIds,
                 originalQuestion, askCall, shownAsk, overlapAsk, refining,
                 scopeVars, optionVars, listVars>>

\* handleRefine, after `await refineAnswer(...)` threw.
RefineFail(kind) ==
  /\ refineCall # Null
  /\ checkUnauthorized(kind)
  /\ error' = Some(ErrorMessage(kind, "Refine"))
  /\ refining' = FALSE
  /\ refineCall' = Null
  /\ inFlight' = [inFlight EXCEPT !.refine = @ - 1]
  /\ UNCHANGED <<callRestVars, question, loading, result, contextSourceIds,
                 originalQuestion, askCall, shownAsk, overlapAsk, scopeVars,
                 optionVars, listVars>>


\* Closeness slider onChange.
SetAnswerCloseness(c) ==
  /\ AskPageShown
  /\ answerCloseness' = c
  /\ UNCHANGED <<authVars, mountVars, pageVars, askVars, refineVars, scopeVars, useHyde,
                 useKeywordRerank, questionLanguage, listVars>>

\* HyDE checkbox onChange.
SetUseHyde(b) ==
  /\ AskPageShown
  /\ useHyde' = b
  /\ UNCHANGED <<authVars, mountVars, pageVars, askVars, refineVars, scopeVars, answerCloseness,
                 useKeywordRerank, questionLanguage, listVars>>

\* Keyword-reranking checkbox onChange.
SetUseKeywordRerank(b) ==
  /\ AskPageShown
  /\ useKeywordRerank' = b
  /\ UNCHANGED <<authVars, mountVars, pageVars, askVars, refineVars, scopeVars, answerCloseness,
                 useHyde, questionLanguage, listVars>>

\* "Search in" language buttons.
SetQuestionLanguage(code) ==
  /\ AskPageShown
  /\ questionLanguage' = code
  /\ UNCHANGED <<authVars, mountVars, pageVars, askVars, refineVars, scopeVars, answerCloseness,
                 useHyde, useKeywordRerank, listVars>>

\* AskScopeSelector radio buttons (disabled while loading); entering
\* "snippets" runs the effect that fetches the snippets to choose from.
SetScopeMode(m) ==
  /\ AskPageShown
  /\ ~loading
  /\ scopeMode' = m
  /\ snippetsFetch' = (snippetsFetch \/ (m = "snippets" /\ scopeMode # m))
  /\ UNCHANGED <<authVars, mountVars, pageVars, askVars, refineVars, selectedGroupNames,
                 selectedSnippetIds, optionVars, groups, snippetsForScope,
                 groupsFetch>>

\* Group checkbox of the scope selector.
handleToggleGroup(name) ==
  /\ AskPageShown
  /\ ~loading
  /\ scopeMode = "groups"
  /\ name \in Range(groups)
  /\ selectedGroupNames' = Toggle(selectedGroupNames, name)
  /\ UNCHANGED <<authVars, mountVars, pageVars, askVars, refineVars, scopeMode, selectedSnippetIds,
                 optionVars, listVars>>

\* Snippet checkbox of the scope selector.
handleToggleSnippet(id) ==
  /\ AskPageShown
  /\ ~loading
  /\ scopeMode = "snippets"
  /\ id \in Range(snippetsForScope)
  /\ selectedSnippetIds' = Toggle(selectedSnippetIds, id)
  /\ UNCHANGED <<authVars, mountVars, pageVars, askVars, refineVars, scopeMode, selectedGroupNames,
                 optionVars, listVars>>

\* refreshGroups, after getGroups() resolved.
GroupsOk(names) ==
  /\ groupsFetch
  /\ groupsFetch' = FALSE
  /\ groups' = names
  /\ UNCHANGED <<authVars, mountVars, pageVars, askVars, refineVars, scopeVars, optionVars,
                 snippetsForScope, snippetsFetch>>

\* refreshGroups, after getGroups() threw (the error is ignored).
GroupsFail(kind) ==
  /\ groupsFetch
  /\ groupsFetch' = FALSE
  /\ checkUnauthorized(kind)
  /\ UNCHANGED <<pageVars, askVars, refineVars, scopeVars, optionVars, groups,
                 snippetsForScope, snippetsFetch>>

\* Scope effect, after getSnippets(500, 0) resolved.
ScopeSnippetsOk(ids) ==
  /\ snippetsFetch
  /\ snippetsFetch' = FALSE
  /\ snippetsForScope' = ids
  /\ UNCHANGED <<authVars, mountVars, pageVars, askVars, refineVars, scopeVars, optionVars, groups,
                 groupsFetch>>

\* Scope effect, after getSnippets(500, 0) threw.
ScopeSnippetsFail(kind) ==
  /\ snippetsFetch
  /\ snippetsFetch' = FALSE
  /\ checkUnauthorized(kind)
  /\ snippetsForScope' = <<>>
  /\ UNCHANGED <<pageVars, askVars, refineVars, scopeVars, optionVars, groups,
                 groupsFetch>>

\* What GET /api/groups and GET /api/snippets return.
BackendGroups == <<"g1", "g2">>
BackendSnippets == [i \in SnippetIds |-> i]

----------------------------------------------------------------------------
(* LoginRegister and the session *)

\* What the user can type into the e-mail and password fields.
Emails == { <<>>, <<"u">>, <<"a">> }
Passwords == { <<" ">>, <<"p", "w">>,
               <<"p", "a", "s", "s", "w", "o", "r", "d">> }
Modes == {"login", "register"}

\* The login / registration form is rendered (not the success notice).
FormShown == loginRegister # Null /\ ~loginRegister[1].registerSuccess

\* "Log in" / "Register" buttons above the form.
SetMode(m) ==
  /\ FormShown
  /\ loginRegister' = Some([loginRegister[1] EXCEPT !.mode = m])
  /\ UNCHANGED <<authVars, user, meCalls, collectionVars, askStateVars, pageVars>>

SetEmail(v) ==
  /\ FormShown
  /\ loginRegister' = Some([loginRegister[1] EXCEPT !.email = v])
  /\ UNCHANGED <<authVars, user, meCalls, collectionVars, askStateVars, pageVars>>

SetPassword(v) ==
  /\ FormShown
  /\ loginRegister' = Some([loginRegister[1] EXCEPT !.password = v])
  /\ UNCHANGED <<authVars, user, meCalls, collectionVars, askStateVars, pageVars>>

\* LoginRegister.handleSubmit up to its await (the submit button is disabled
\* while loading).
LoginRegisterSubmit ==
  /\ FormShown
  /\ ~loginRegister[1].loading
  /\ LET f == loginRegister[1]
         trimmedEmail == Trim(f.email)
         trimmedPassword == Trim(f.password)
     IN IF trimmedEmail = <<>> \/ trimmedPassword = <<>>
        THEN /\ loginRegister' =
                  Some([f EXCEPT !.error = Some("Email and password are required.")])
             /\ UNCHANGED authCall
        ELSE IF f.mode = "register" /\ Len(trimmedPassword) < 8
        THEN /\ loginRegister' =
                  Some([f EXCEPT !.error = Some("Password must be at least 8 characters.")])
             /\ UNCHANGED authCall
        ELSE /\ loginRegister' = Some([f EXCEPT !.error = Null, !.loading = TRUE])
             /\ authCall' = Some([mode |-> f.mode, email |-> trimmedEmail,
                                  password |-> trimmedPassword])
  /\ UNCHANGED <<authVars, user, meCalls, collectionVars, askStateVars, tab,
                 badge, selectedGroups, deleted,
                 restVars>>

\* POST /api/auth/login: the access token of the account of that e-mail.
AccessToken(email) == IF email = <<"a">> THEN ADMIN_TOKEN ELSE AUTH_TOKEN

\* GET /api/auth/me: the user the token of the Authorization header belongs to.
Me(tok) ==
  [email |-> IF tok = ADMIN_TOKEN THEN <<"a">> ELSE <<"u">>,
   role |-> IF tok = ADMIN_TOKEN THEN "admin" ELSE "user"]

\* handleSubmit in login mode, after `await login(...)` resolved:
\* setToken(res.access_token); onSuccess(), which is setTokenState(getToken()).
LoginOk ==
  /\ authCall # Null
  /\ authCall[1].mode = "login"
  /\ storedToken' = Some(AccessToken(authCall[1].email))
  /\ token' = storedToken'
  /\ Remount(tab)
  /\ UsersFollows(tab)
  /\ EditFollows(tab)
  /\ authCall' = Null
  /\ UNCHANGED <<askStateVars, tab, badge, selectedGroups, deleted,
                 themeVars, synthesis, caught, sourceToEdit, inFlight>>

\* The messages of the errors login() and register() throw.
AuthErrors ==
  {"Failed to fetch", "Account pending approval", "Login failed: 401",
   "Register failed: 400"}

\* handleSubmit, after `await login(...)` or `await register(...)` threw.
AuthFail(message) ==
  /\ authCall # Null
  /\ loginRegister' =
       Some([loginRegister[1] EXCEPT !.error = Some(message), !.loading = FALSE])
  /\ authCall' = Null
  /\ UNCHANGED <<authVars, user, meCalls, collectionVars, askStateVars, tab,
                 badge, selectedGroups, deleted,
                 restVars>>

\* Mutant of RegisterOk: the registration response is treated like a login
\* response.
RegisterOkLogsIn ==
  /\ authCall # Null
  /\ authCall[1].mode = "register"
  /\ storedToken' = Some(AccessToken(authCall[1].email))
  /\ token' = storedToken'
  /\ Remount(tab)
  /\ UsersFollows(tab)
  /\ EditFollows(tab)
  /\ authCall' = Null
  /\ UNCHANGED <<askStateVars, tab, badge, selectedGroups, deleted,
                 themeVars, synthesis, caught, sourceToEdit, inFlight>>

\* handleSubmit in register mode, after `await register(...)` resolved.
RegisterOk ==
  /\ authCall # Null
  /\ authCall[1].mode = "register"
  /\ loginRegister' =
       Some([loginRegister[1] EXCEPT !.registerSuccess = TRUE, !.loading = FALSE])
  /\ authCall' = Null
  /\ UNCHANGED <<authVars, user, meCalls, collectionVars, askStateVars, tab,
                 badge, selectedGroups, deleted,
                 restVars>>

\* "Back to log in" on the success notice.
BackToLogin ==
  /\ loginRegister # Null
  /\ loginRegister[1].registerSuccess
  /\ loginRegister' =
       Some([loginRegister[1] EXCEPT !.registerSuccess = FALSE, !.mode = "login"])
  /\ UNCHANGED <<authVars, user, meCalls, collectionVars, askStateVars, pageVars>>

\* The getMe effect, after getMe() resolved: setUser, whatever the token is now.
MeOk(header) ==
  /\ header \in meCalls
  /\ header # Null
  /\ user' = Some(Me(header[1]))
  /\ meCalls' = meCalls \ {header}
  /\ UNCHANGED authVars
  /\ UsersFollows(tab)
  /\ UNCHANGED <<loginRegister, collectionVars, askStateVars, tab, authCall,
                 badge, selectedGroups, deleted, themeVars, synthesis,
                 extraVars, inFlight>>

\* The getMe effect, after getMe() threw: checkUnauthorized on a 401, then
\* the catch handler's setTokenState(null).
MeFail(header, kind) ==
  /\ header \in meCalls
  /\ storedToken' = IF kind = "unauthorized" THEN Null ELSE storedToken
  /\ token' = Null
  /\ user' = IF token # Null THEN Null ELSE user
  /\ meCalls' = meCalls \ {header}
  /\ LoginRegisterFollows
  /\ CollectionFollows(tab)
  /\ UNCHANGED <<askStateVars, pageVars>>

\* The Users entry of the sidebar is rendered.
UsersEntryShown == LoggedIn /\ user # Null /\ user[1].role = "admin"

\* UsersView is rendered.
UsersViewShown == UsersEntryShown /\ tab = "users"

\* Sidebar onTabChange, with the effects on [tab]: refreshGroups() on
\* entering Collection, getSnippets(500, 0) on entering Ask in snippets mode.
SetTab(t) ==
  /\ LoggedIn
  /\ t = "users" => UsersEntryShown
  /\ tab' = t
  /\ groupsFetch' = (groupsFetch \/ (t = "collection" /\ tab # t))
  /\ snippetsFetch' =
       (snippetsFetch \/ (t = "ask" /\ tab # t /\ scopeMode = "snippets"))
  /\ UNCHANGED authVars
  /\ Remount(t)
  /\ UsersFollows(t)
  /\ EditFollows(t)
  /\ UNCHANGED <<askVars, refineVars, scopeVars, optionVars, groups,
                 snippetsForScope, authCall, badge, selectedGroups, deleted,
                 themeVars, synthesis, caught, sourceToEdit, inFlight>>

----------------------------------------------------------------------------
(* UsersView and the document link *)

\* The message of the Error listUsers() / openDocumentInNewTab() throws: the
\* TypeError of a rejected fetch, the response text, or the text built from
\* the status.
OtherErrorMessage(call, kind) ==
  CASE kind = "network" -> "Failed to fetch"
    [] call = "listUsers" /\ kind = "unauthorized" -> "Unauthorized"
    [] call = "listUsers" -> "Internal Server Error"
    [] kind = "unauthorized" -> "Failed to load document: 401"
    [] OTHER -> "Failed to load document: 500"

\* SourceCard "View in original document" of a displayed source (taken to
\* come from an uploaded document): openDocumentInNewTab(source.id).
OpenDocument ==
  /\ AnswerCardShown
  /\ result[1].sources # <<>>
  /\ otherCalls' = otherCalls \cup {"openDocumentInNewTab"}
  /\ UNCHANGED <<askPageVars, tab, authCall, badge, selectedGroups, deleted,
                 themeVars, synthesis, extraVars, inFlight>>

\* listUsers() / openDocumentInNewTab() resolved: the users are listed, the
\* document is opened in a new tab.
OtherOk(call) ==
  /\ call \in otherCalls
  /\ otherCalls' = otherCalls \ {call}
  /\ UNCHANGED <<askPageVars, tab, authCall, badge, selectedGroups, deleted,
                 themeVars, synthesis, extraVars, inFlight>>

\* listUsers() / openDocumentInNewTab() threw: loadUsers' catch calls
\* setError(e.message), the link's catch calls alert(e.message).
OtherFail(call, kind) ==
  /\ call \in otherCalls
  /\ otherCalls' = otherCalls \ {call}
  /\ checkUnauthorized(kind)
  /\ caught' = Some([call |-> call, message |-> OtherErrorMessage(call, kind)])
  /\ UNCHANGED <<askStateVars, tab, authCall, badge, selectedGroups, deleted,
                 themeVars, synthesis, inFlight, editVars>>

----------------------------------------------------------------------------
(* CollectionView *)

\* Number of refresh() calls of the rendered view that may be in flight.
MaxListCalls == 2

\* The snippets the backend holds: odd ids in group g1, even ids in g2; the
\* first in German, the others in English; the second a generated translation.
SnippetGroup(i) == IF i % 2 = 1 THEN "g1" ELSE "g2"
SnippetLanguage(i) == IF i = 1 THEN "de" ELSE "en"
IsGeneratedTranslation(i) == i = 2

\* GET /api/snippets: the snippets of the groups and languages asked for (all
\* of them for an empty list), generated translations only when asked for.
ListResponse(params) ==
  SelectSeq(BackendSnippets,
            LAMBDA i :
              /\ i \notin deleted
              /\ params.group = <<>> \/ SnippetGroup(i) \in Range(params.group)
              /\ params.language = <<>>
                   \/ SnippetLanguage(i) \in Range(params.language)
              /\ params.include_translations \/ ~IsGeneratedTranslation(i))

\* The query refresh() sends for the filters of a render.
RefreshParams(grps, view) ==
  ListParams(grps, view.selectedLanguages, view.showTranslations)

\* The filter controls can be used: the view is rendered, no dialog covers
\* the page, and the bound on calls in flight is not reached.
FiltersUsable ==
  /\ collectionView # Null
  /\ collectionView[1].snippetToDelete = Null
  /\ collectionView[1].addModal = Null
  /\ Cardinality(listCalls) < MaxListCalls

\* A filter has changed: `refresh` is rebuilt and the effect on [refresh]
\* calls it.
FilterChange(grps, view) ==
  /\ selectedGroups' = grps
  /\ collectionView' = Some([view EXCEPT !.loading = TRUE, !.error = Null])
  /\ listCalls' = listCalls \cup {ListCall(RefreshParams(grps, view), FALSE)}
  /\ UNCHANGED <<authVars, user, meCalls, loginRegister, deleteCalls,
                 orphanCalls, askStateVars, tab, authCall, badge, deleted,
                 restVars>>

\* Sidebar group button.
handleCollectionToggleGroup(name) ==
  /\ FiltersUsable
  /\ name \in Range(groups)
  /\ FilterChange(Toggle(selectedGroups, name), collectionView[1])

\* Sidebar "All" button: setSelectedGroups([]).
handleCollectionClearGroups ==
  /\ FiltersUsable
  /\ FilterChange(<<>>, collectionView[1])

\* Language buttons of the filter bar.
toggleLanguage(code) ==
  /\ FiltersUsable
  /\ FilterChange(selectedGroups,
       [collectionView[1] EXCEPT
          !.selectedLanguages = Toggle(collectionView[1].selectedLanguages, code)])

\* "Show generated translations" checkbox.
SetShowTranslations(b) ==
  /\ FiltersUsable
  /\ b # collectionView[1].showTranslations
  /\ FilterChange(selectedGroups,
       [collectionView[1] EXCEPT !.showTranslations = b])

\* The view after a refresh() call has settled: the `finally` of refresh,
\* and handleDelete's own `finally` when it awaited the call.
Refreshed(view, call) ==
  [view EXCEPT !.loading = FALSE,
               !.deleting = IF call.afterDelete THEN FALSE ELSE @]

\* refresh, after getSnippets(...) resolved; handleDelete, when it awaited
\* the call, goes on with onGroupsChange().
ListOk(call) ==
  /\ call \in listCalls
  /\ collectionView' =
       Some([Refreshed(collectionView[1], call) EXCEPT
               !.snippets = ListResponse(call.params)])
  /\ listCalls' = listCalls \ {call}
  /\ groupsFetch' = (groupsFetch \/ call.afterDelete)
  /\ UNCHANGED <<authVars, user, meCalls, loginRegister, deleteCalls,
                 orphanCalls, askVars, refineVars, scopeVars, optionVars,
                 groups, snippetsForScope, snippetsFetch, pageVars>>

\* refresh, after getSnippets(...) threw.
ListFail(call, kind) ==
  /\ call \in listCalls
  /\ Unauthorized(kind)
  /\ CollectionBecomes(token' # Null,
       Some([Refreshed(collectionView[1], call) EXCEPT
               !.error = Some(ErrorMessage(kind, "Snippets"))]),
       listCalls \ {call}, deleteCalls, orphanCalls)
  /\ groupsFetch' = (groupsFetch \/ call.afterDelete)
  /\ UNCHANGED <<askVars, refineVars, scopeVars, optionVars, groups,
                 snippetsForScope, snippetsFetch, pageVars>>

\* A call of an unmounted view settles: nothing is left to update but the
\* token (on a 401) and the groups (after a delete or an upload); after an
\* upload that succeeded, onAdded() runs the unmounted view's refresh().
OrphanSettles(call, kind) ==
  /\ call \in orphanCalls
  /\ Unauthorized(kind)
  /\ CollectionBecomes(token' # Null /\ tab = "collection", collectionView,
       listCalls, deleteCalls,
       (orphanCalls \ {call})
         \cup (IF call = "upload" /\ kind = "ok" THEN {"list"} ELSE {}))
  /\ groupsFetch' = (\/ groupsFetch
                     \/ call = "deleteList"
                     \/ call = "upload" /\ kind = "ok")
  /\ UNCHANGED <<askVars, refineVars, scopeVars, optionVars, groups,
                 snippetsForScope, snippetsFetch, pageVars>>

\* The Delete button of a snippet card.
OpenDelete(id) ==
  /\ collectionView # Null
  /\ ~collectionView[1].loading
  /\ collectionView[1].snippetToDelete = Null
  /\ collectionView[1].addModal = Null
  /\ id \in Range(collectionView[1].snippets)
  /\ collectionView' = Some([collectionView[1] EXCEPT !.snippetToDelete = Some(id)])
  /\ UNCHANGED <<authVars, user, meCalls, loginRegister, listCalls,
                 deleteCalls, orphanCalls, askStateVars, pageVars>>

\* ConfirmDeleteModal onCancel: the Cancel button (disabled while deleting)
\* or a click on the backdrop (never disabled).
CancelDelete ==
  /\ collectionView # Null
  /\ collectionView[1].snippetToDelete # Null
  /\ collectionView' = Some([collectionView[1] EXCEPT !.snippetToDelete = Null])
  /\ UNCHANGED <<authVars, user, meCalls, loginRegister, listCalls,
                 deleteCalls, orphanCalls, askStateVars, pageVars>>

\* A deleteSnippet request in flight: the id, the query of the `refresh` its
\* handleDelete closes over, and whether its CollectionView is still mounted.
DeleteCall(id, params) == [id |-> id, params |-> params, live |-> TRUE]

\* Mutant of handleDelete: the first snippet of the list is deleted.
handleDeleteFirst ==
  /\ collectionView # Null
  /\ collectionView[1].snippetToDelete # Null
  /\ ~collectionView[1].deleting
  /\ collectionView[1].snippets # <<>>
  /\ collectionView' = Some([collectionView[1] EXCEPT !.deleting = TRUE])
  /\ deleteCalls' = deleteCalls \cup
       {DeleteCall(collectionView[1].snippets[1],
                   RefreshParams(selectedGroups, collectionView[1]))}
  /\ UNCHANGED <<authVars, user, meCalls, loginRegister, listCalls,
                 orphanCalls, askStateVars, pageVars>>

\* handleDelete up to its await: the Delete button of the dialog (disabled
\* while deleting).
handleDelete ==
  /\ collectionView # Null
  /\ collectionView[1].snippetToDelete # Null
  /\ ~collectionView[1].deleting
  /\ collectionView' = Some([collectionView[1] EXCEPT !.deleting = TRUE])
  /\ deleteCalls' = deleteCalls \cup
       {DeleteCall(collectionView[1].snippetToDelete[1],
                   RefreshParams(selectedGroups, collectionView[1]))}
  /\ UNCHANGED <<authVars, user, meCalls, loginRegister, listCalls,
                 orphanCalls, askStateVars, pageVars>>

\* handleDelete, after `await deleteSnippet(...)` resolved:
\* setSnippetToDelete(null), then refresh() is called and awaited.
DeleteOk(call) ==
  /\ call \in deleteCalls
  /\ call.id \notin deleted
  /\ deleted' = deleted \cup {call.id}
  /\ IF call.live
     THEN CollectionBecomes(TRUE,
            Some([collectionView[1] EXCEPT !.snippetToDelete = Null,
                                           !.loading = TRUE, !.error = Null]),
            listCalls \cup {ListCall(call.params, TRUE)},
            deleteCalls \ {call}, orphanCalls)
     ELSE CollectionBecomes(collectionView # Null, collectionView, listCalls,
            deleteCalls \ {call}, orphanCalls \cup {"deleteList"})
  /\ UNCHANGED <<authVars, user, meCalls, loginRegister, askStateVars, tab,
                 authCall, badge, selectedGroups,
                 restVars>>

\* handleDelete, after `await deleteSnippet(...)` threw.
DeleteFail(call, kind) ==
  /\ call \in deleteCalls
  /\ Unauthorized(kind)
  /\ CollectionBecomes(token' # Null /\ tab = "collection",
       IF call.live
       THEN Some([collectionView[1] EXCEPT
                    !.error = Some(ErrorMessage(kind, "Delete")),
                    !.deleting = FALSE])
       ELSE collectionView,
       listCalls, deleteCalls \ {call}, orphanCalls)
  /\ UNCHANGED <<askStateVars, pageVars>>

----------------------------------------------------------------------------
(* AddSnippetModal *)

\* AddSnippetModals one CollectionView opens.
MaxModals == 2

\* File names: B.TXT, c.Pdf, d.docx, e.exe, and txt (no extension).
B_TXT == <<"B", ".", "T", "X", "T">>
C_PDF == <<"c", ".", "P", "d", "f">>
D_DOCX == <<"d", ".", "d", "o", "c", "x">>
E_EXE == <<"e", ".", "e", "x", "e">>
TXT == <<"t", "x", "t">>

\* e.target.files of a change event of the file input: no file, one file,
\* documents only, documents among other files, no document.
Selections ==
  { <<>>, <<B_TXT>>, <<E_EXE>>, <<TXT>>, <<TXT, E_EXE>>, <<C_PDF, E_EXE>>,
    <<E_EXE, D_DOCX, TXT>>, <<D_DOCX, C_PDF, B_TXT>> }

\* e.target.files of a change event of the folder input.
FolderSelections == { <<D_DOCX, E_EXE>>, <<E_EXE>> }

\* String.prototype.toLowerCase, on the letters of the file names and of the
\* language codes.
ToLowerChar(c) ==
  CASE c = "B" -> "b"
    [] c = "D" -> "d"
    [] c = "E" -> "e"
    [] c = "T" -> "t"
    [] c = "X" -> "x"
    [] c = "P" -> "p"
    [] OTHER -> c

toLowerCase(name) == [i \in 1..Len(name) |-> ToLowerChar(name[i])]

\* String.prototype.endsWith.
endsWith(name, suffix) ==
  /\ Len(name) >= Len(suffix)
  /\ SubSeq(name, Len(name) - Len(suffix) + 1, Len(name)) = suffix

\* Mutant of IsDocument: the extension is compared as it is written.
IsDocumentCaseSensitive(name) ==
  \/ endsWith(name, <<".", "t", "x", "t">>)
  \/ endsWith(name, <<".", "d", "o", "c", "x">>)
  \/ endsWith(name, <<".", "p", "d", "f">>)

\* The filter of handleFileChange.
IsDocument(name) ==
  \/ endsWith(toLowerCase(name), <<".", "t", "x", "t">>)
  \/ endsWith(toLowerCase(name), <<".", "d", "o", "c", "x">>)
  \/ endsWith(toLowerCase(name), <<".", "p", "d", "f">>)

NO_DOCUMENTS_MSG == "Select .txt, .docx, or .pdf files only."

\* The message of the error uploadSnippets throws.
UploadErrorText(kind) ==
  CASE kind = "network" -> "Failed to fetch"
    [] kind = "unauthorized" -> "Unauthorized"
    [] OTHER -> "Internal Server Error"

\* An AddSnippetModal can be opened or is open.
AddModalShown == collectionView # Null /\ collectionView[1].addModal # Null

\* The file input whose change event ran last: its files, and the group its
\* handler passes on (none for the file input, the folder for the other).
FileInput(files, group) == [files |-> files, group |-> group]

\* "Add snippet" button: setShowAddModal(true) mounts a new AddSnippetModal.
OpenAddModal ==
  /\ collectionView # Null
  /\ collectionView[1].addModal = Null
  /\ collectionView[1].snippetToDelete = Null
  /\ collectionView[1].modalCount < MaxModals
  /\ collectionView' =
       Some([collectionView[1] EXCEPT
               !.modalCount = @ + 1,
               !.addModal = Some([instance |-> collectionView[1].modalCount + 1,
                                  uploading |-> FALSE, uploadMessage |-> Null,
                                  anonymize |-> FALSE,
                                  input |-> FileInput(<<>>, Null)])])
  /\ UNCHANGED <<authVars, user, meCalls, loginRegister, listCalls,
                 deleteCalls, orphanCalls, askStateVars, pageVars>>

\* onClose: the close button or a click on the backdrop.
CloseAddModal ==
  /\ AddModalShown
  /\ collectionView' = Some([collectionView[1] EXCEPT !.addModal = Null])
  /\ UNCHANGED <<authVars, user, meCalls, loginRegister, listCalls,
                 deleteCalls, orphanCalls, askStateVars, pageVars>>

\* "Anonymize PII" checkbox.
SetAnonymize(b) ==
  /\ AddModalShown
  /\ b # collectionView[1].addModal[1].anonymize
  /\ collectionView' =
       Some([collectionView[1] EXCEPT !.addModal[1].anonymize = b])
  /\ UNCHANGED <<authVars, user, meCalls, loginRegister, listCalls,
                 deleteCalls, orphanCalls, askStateVars, pageVars>>

\* An uploadSnippets(list, group, anonymize) request in flight: its form
\* fields, the modal that sent it, and the query of the `refresh` its onAdded
\* closes over.
UploadCall(list, group, modal, params) ==
  [files |-> list, group |-> group, anonymize |-> modal.anonymize,
   modal |-> modal.instance, params |-> params]

\* handleFileChange up to its await (the file inputs are disabled while
\* uploading): nothing for an empty selection; the error message when no
\* file passes the filter; else the request with the files that pass.
handleFileChange(files, group) ==
  /\ AddModalShown
  /\ ~collectionView[1].addModal[1].uploading
  /\ LET view == collectionView[1]
         modal == view.addModal[1]
         list == SelectSeq(files, IsDocument)
         chosen == [modal EXCEPT !.input = FileInput(files, group)]
     IN collectionView' =
          IF files = <<>> THEN Some([view EXCEPT !.addModal = Some(chosen)])
          ELSE IF list = <<>>
          THEN Some([view EXCEPT
                 !.addModal = Some([chosen EXCEPT
                    !.uploadMessage = Some([type |-> "err",
                                            text |-> NO_DOCUMENTS_MSG]),
                    !.uploading = FALSE])])
          ELSE Some([view EXCEPT
                 !.addModal = Some([chosen EXCEPT !.uploadMessage = Null,
                                                  !.uploading = TRUE]),
                 !.uploads = @ \cup
                    {UploadCall(list, group, modal,
                                RefreshParams(selectedGroups, view))}])
  /\ UNCHANGED <<authVars, user, meCalls, loginRegister, listCalls,
                 deleteCalls, orphanCalls, askStateVars, pageVars>>

\* handleFolderChange: the group is the folder's name.
handleFolderChange(files) ==
  /\ files # <<>>
  /\ handleFileChange(files, Some("docs"))

\* The modal that sent `call` is still the one rendered.
UploadLive(call) ==
  /\ collectionView[1].addModal # Null
  /\ collectionView[1].addModal[1].instance = call.modal

\* handleFileChange, after `await uploadSnippets(...)` resolved: the ok
\* message, then onAdded() = handleAdded: setShowAddModal(false), refresh()
\* and onGroupsChange().
UploadOk(call) ==
  /\ collectionView # Null
  /\ call \in collectionView[1].uploads
  /\ collectionView' =
       Some([collectionView[1] EXCEPT !.addModal = Null, !.loading = TRUE,
                                      !.error = Null, !.uploads = @ \ {call}])
  /\ listCalls' = listCalls \cup {ListCall(call.params, FALSE)}
  /\ groupsFetch' = TRUE
  /\ UNCHANGED <<authVars, user, meCalls, loginRegister, deleteCalls,
                 orphanCalls, askVars, refineVars, scopeVars, optionVars,
                 groups, snippetsForScope, snippetsFetch, pageVars>>

\* handleFileChange, after `await uploadSnippets(...)` threw: the error
\* message, and uploading reset in `finally`.
UploadFail(call, kind) ==
  /\ collectionView # Null
  /\ call \in collectionView[1].uploads
  /\ Unauthorized(kind)
  /\ LET view == [collectionView[1] EXCEPT !.uploads = @ \ {call}] IN
     CollectionBecomes(token' # Null,
       IF UploadLive(call)
       THEN Some([view EXCEPT
              !.addModal[1].uploadMessage =
                 Some([type |-> "err", text |-> UploadErrorText(kind)]),
              !.addModal[1].uploading = FALSE])
       ELSE Some(view),
       listCalls, deleteCalls, orphanCalls)
  /\ UNCHANGED <<askStateVars, pageVars>>

----------------------------------------------------------------------------
(* EditSnippetModal *)

\* String.prototype.split for a one-character separator.
RECURSIVE Split(_, _)
Split(s, sep) ==
  IF \E i \in 1..Len(s) : s[i] = sep
  THEN LET i == CHOOSE k \in 1..Len(s) :
                   s[k] = sep /\ \A j \in 1..(k - 1) : s[j] # sep
       IN <<SubSeq(s, 1, i - 1)>> \o Split(SubSeq(s, i + 1, Len(s)), sep)
  ELSE <<s>>

\* field.split(sep).map((s) => s.trim()).filter((s) => s.length > 0)
Entries(field, sep) ==
  LET parts == Split(field, sep) IN
  SelectSeq([i \in 1..Len(parts) |-> Trim(parts[i])], LAMBDA e : e # <<>>)

\* The object with no key, and { ...metadata } of a metadata object or null.
NoMetadata == [k \in {} |-> <<>>]
Spread(metadata) == IF metadata = Null THEN NoMetadata ELSE metadata[1]

\* if (present) meta[key] = value; else delete meta[key];
SetOrDelete(meta, key, present, value) ==
  IF present
  THEN [k \in DOMAIN meta \cup {key} |-> IF k = key THEN value ELSE meta[k]]
  ELSE [k \in DOMAIN meta \ {key} |-> meta[k]]

\* The five edited keys set or deleted in `meta` from the form's fields.
FormApplied(meta, form) ==
  LET language == Trim(form.language)
      heading == Trim(form.heading)
      category == Trim(form.category)
      linked == Entries(form.linkedSnippets, ",")
      questions == Entries(form.exampleQuestions, "\n")
      m1 == SetOrDelete(meta, "language", language # <<>>, toLowerCase(language))
      m2 == SetOrDelete(m1, "heading", heading # <<>>, heading)
      m3 == SetOrDelete(m2, "category", category # <<>>, category)
      m4 == SetOrDelete(m3, "linked_snippets", linked # <<>>, linked)
      m5 == SetOrDelete(m4, "example_questions", questions # <<>>, questions)
  IN IF DOMAIN m5 = {} THEN Null ELSE Some(m5)

\* Mutant of buildMetadata: the metadata is built from the form alone.
buildMetadataFromForm(snippet, form) == FormApplied(NoMetadata, form)

\* EditSnippetModal.buildMetadata for the snippet and the form's fields.
buildMetadata(snippet, form) == FormApplied(Spread(snippet.metadata), form)

\* The metadata objects the backend returns with a source: none, a document
\* link only, a document link with an upper-case language code and a heading,
\* and the two lists with a category.
Metadatas ==
  { Null,
    Some([source_document_url |-> <<"u">>]),
    Some([source_document_url |-> <<"u">>, language |-> <<"D", "E">>,
          heading |-> <<"h">>]),
    Some([category |-> <<"c">>, linked_snippets |-> << <<"a">>, <<"b">> >>,
          example_questions |-> << <<"q">> >>]) }

\* What the user can put into the fields of the form.
EditInputs ==
  [text |-> {<<>>},
   language |-> {<<>>},
   heading |-> {<<" ">>},
   category |-> {<<" ", "C">>},
   linkedSnippets |-> {<<"a", ",", " ", ",", "b">>},
   exampleQuestions |-> {<<"\n", " ">>}]

\* EditSnippetModal is rendered.
EditModalShown == EditShown(token, tab, sourceToEdit) /\ editModal # Null

\* SourceCard "Edit" button of a displayed source, whose metadata is
\* `metadata`: setSourceToEdit(source) mounts the modal.
setSourceToEdit(id, metadata) ==
  /\ AnswerCardShown
  /\ sourceToEdit = Null
  /\ id \in SourceIds(result[1].sources)
  /\ sourceToEdit' = Some([id |-> id, text |-> <<"t">>, metadata |-> metadata])
  /\ editModal' = Some(NewEditSnippetModal(sourceToSnippet(sourceToEdit'[1])))
  /\ UNCHANGED <<askPageVars, tab, authCall, badge, selectedGroups, deleted,
                 themeVars, synthesis, otherCalls, caught, inFlight,
                 updateCalls>>

\* onChange of one field of the form.
SetEditField(field, value) ==
  /\ EditModalShown
  /\ editModal[1][field] # value
  /\ editModal' = Some([editModal[1] EXCEPT ![field] = value])
  /\ UNCHANGED <<askPageVars, tab, authCall, badge, selectedGroups, deleted,
                 themeVars, synthesis, otherCalls, caught, inFlight,
                 sourceToEdit, updateCalls>>

\* EditSnippetModal.handleSubmit up to `await updateSnippet(...)` (the Save
\* button is disabled while loading): the request carries buildMetadata().
EditSubmit ==
  /\ EditModalShown
  /\ ~editModal[1].loading
  /\ IF Trim(editModal[1].text) = <<>>
     THEN UNCHANGED vars
     ELSE /\ editModal' =
               Some([editModal[1] EXCEPT !.message = Null, !.loading = TRUE])
          /\ updateCalls' = updateCalls \cup
               {[id |-> sourceToEdit[1].id,
                 text |-> Trim(editModal[1].text),
                 metadata |->
                   buildMetadata(sourceToSnippet(sourceToEdit[1]), editModal[1]),
                 snippet |-> sourceToSnippet(sourceToEdit[1]),
                 form |-> editModal[1],
                 live |-> TRUE]}
          /\ UNCHANGED <<askPageVars, tab, authCall, badge, selectedGroups,
                         deleted, themeVars, synthesis, otherCalls, caught,
                         inFlight, sourceToEdit>>

\* handleSubmit, after updateSnippet resolved: onSaved() is
\* App.handleSourceSaved, which closes the modal.
UpdateOk(call) ==
  /\ call \in updateCalls
  /\ updateCalls' = Stale(updateCalls \ {call})
  /\ sourceToEdit' = Null
  /\ editModal' = Null
  /\ UNCHANGED <<askPageVars, tab, authCall, badge, selectedGroups, deleted,
                 themeVars, synthesis, otherCalls, caught, inFlight>>

\* handleSubmit, after updateSnippet threw: the message is shown by the
\* instance that sent the request, if it is still mounted.
UpdateFail(call, kind) ==
  /\ call \in updateCalls
  /\ updateCalls' = updateCalls \ {call}
  /\ checkUnauthorized(kind)
  /\ editModal' =
       IF call.live /\ editModal # Null
       THEN Some([editModal[1] EXCEPT
                    !.message = Some([type |-> "err",
                                      text |-> UploadErrorText(kind)]),
                    !.loading = FALSE])
       ELSE editModal
  /\ UNCHANGED <<askStateVars, tab, authCall, badge, selectedGroups, deleted,
                 themeVars, synthesis, otherCalls, caught, inFlight,
                 sourceToEdit>>

\* The close button or a click beside the dialog: onCancel().
CancelEdit ==
  /\ EditModalShown
  /\ sourceToEdit' = Null
  /\ editModal' = Null
  /\ updateCalls' = Stale(updateCalls)
  /\ UNCHANGED <<askPageVars, tab, authCall, badge, selectedGroups, deleted,
                 themeVars, synthesis, otherCalls, caught, inFlight>>

----------------------------------------------------------------------------
(* Theme *)

Themes == {"light", "dark", "system"}

\* Mutant of getStoredTheme: the stored value is returned unvalidated.
getStoredThemeUnvalidated ==
  IF storageOk /\ storedTheme # Null THEN storedTheme[1] ELSE "system"

\* getStoredTheme(): the stored value if it can be read and is a theme.
getStoredTheme ==
  IF storageOk /\ storedTheme # Null /\ storedTheme[1] \in Themes
  THEN storedTheme[1]
  ELSE "system"

\* applyTheme(theme), with the OS preference it reads: whether the class
\* "dark" is on the root element afterwards.
applyTheme(t, osDark) == t = "dark" \/ (t = "system" /\ osDark)

\* The three effects on [theme], run for the theme `t`: applyTheme,
\* localStorage.setItem in a try/catch, and the media-query listener, which
\* the cleanup of the previous run removed.
ThemeEffects(t) ==
  /\ dark' = applyTheme(t, prefersDark)
  /\ storedTheme' = IF storageOk THEN Some(t) ELSE storedTheme
  /\ mediaListener' = (t = "system")

\* Mutant of SetTheme: the listener of an earlier "system" is never removed.
SetThemeKeepsListener(t) ==
  /\ LoggedIn
  /\ chosenTheme' = Some(t)
  /\ theme' = t
  /\ IF t = theme
     THEN UNCHANGED <<dark, storedTheme, mediaListener>>
     ELSE /\ dark' = applyTheme(t, prefersDark)
          /\ storedTheme' = IF storageOk THEN Some(t) ELSE storedTheme
          /\ mediaListener' = (mediaListener \/ t = "system")
  /\ UNCHANGED <<prefersDark, storageOk, startTheme, askPageVars, tab, authCall, badge,
                 selectedGroups, deleted, synthesis,
                 otherCalls, extraVars, inFlight>>

\* ThemeToggle menu item: onThemeChange(t) = setTheme(t); the effects run
\* when the state changed.
SetTheme(t) ==
  /\ LoggedIn
  /\ chosenTheme' = Some(t)
  /\ theme' = t
  /\ IF t = theme
     THEN UNCHANGED <<dark, storedTheme, mediaListener>>
     ELSE ThemeEffects(t)
  /\ UNCHANGED <<prefersDark, storageOk, startTheme, askPageVars, tab, authCall, badge,
                 selectedGroups, deleted, synthesis,
                 otherCalls, extraVars, inFlight>>

\* The operating system switches between light and dark: the "change" event
\* of the media query calls the listener, if one is registered.
OsPreferenceChange ==
  /\ prefersDark' = ~prefersDark
  /\ dark' = IF mediaListener THEN applyTheme("system", prefersDark') ELSE dark
  /\ UNCHANGED <<theme, storedTheme, mediaListener, storageOk, chosenTheme, startTheme,
                 askPageVars, tab, authCall, badge, selectedGroups, deleted, synthesis,
                 otherCalls, extraVars, inFlight>>

\* The browser starts or stops refusing access to localStorage.
SetStorageAccess(b) ==
  /\ b # storageOk
  /\ storageOk' = b
  /\ UNCHANGED <<theme, storedTheme, dark, prefersDark, mediaListener,
                 chosenTheme, startTheme, askPageVars, tab, authCall, badge,
                 selectedGroups, deleted, synthesis,
                 otherCalls, extraVars, inFlight>>

\* The stored value is removed (site data cleared) or replaced by a string
\* that is no theme.
StorageChanged(v) ==
  /\ v # storedTheme
  /\ storedTheme' = v
  /\ UNCHANGED <<theme, dark, prefersDark, mediaListener, storageOk,
                 chosenTheme, startTheme, askPageVars, tab, authCall, badge,
                 selectedGroups, deleted, synthesis,
                 otherCalls, extraVars, inFlight>>

\* The page is closed and opened again: App is mounted with its initial
\* state (theme from getStoredTheme, token from getToken) and its effects
\* run, applyTheme overwriting what main.tsx's applyThemeBeforePaint set on
\* the root element; requests of the closed page are gone.
Reopen ==
  /\ theme' = getStoredTheme
  /\ startTheme' = theme'
  /\ ThemeEffects(theme')
  /\ UNCHANGED <<prefersDark, storageOk, chosenTheme, storedToken, deleted,
                 synthesis>>
  /\ otherCalls' = {}
  /\ caught' = Null
  /\ inFlight' = [ask |-> 0, refine |-> 0]
  /\ sourceToEdit' = Null
  /\ editModal' = Null
  /\ updateCalls' = {}
  /\ token' = IF storageOk THEN storedToken ELSE Null
  /\ question' = <<>>
  /\ loading' = FALSE
  /\ error' = Null
  /\ result' = Null
  /\ refining' = FALSE
  /\ contextSourceIds' = <<>>
  /\ originalQuestion' = <<>>
  /\ scopeMode' = "all"
  /\ selectedGroupNames' = <<>>
  /\ selectedSnippetIds' = <<>>
  /\ answerCloseness' = DefaultCloseness
  /\ useHyde' = FALSE
  /\ useKeywordRerank' = TRUE
  /\ questionLanguage' = ""
  /\ groups' = <<>>
  /\ snippetsForScope' = <<>>
  /\ groupsFetch' = TRUE
  /\ snippetsFetch' = FALSE
  /\ askCall' = Null
  /\ refineCall' = Null
  /\ shownAsk' = Null
  /\ overlapAsk' = NoOverlap
  /\ user' = Null
  /\ tab' = "ask"
  /\ meCalls' = IF token' # Null THEN {storedToken} ELSE {}
  /\ loginRegister' = IF token' # Null THEN Null ELSE Some(NewLoginRegister)
  /\ authCall' = Null
  /\ badge' = Null
  /\ selectedGroups' = <<>>
  /\ collectionView' = Null
  /\ listCalls' = {}
  /\ deleteCalls' = {}
  /\ orphanCalls' = {}

----------------------------------------------------------------------------
(* The backend's Ask pipeline *)

\* POST /api/ask in the backend: the candidates are ranked and the answer is
\* synthesized.
BackendAsk(candidates, provider) ==
  /\ \E ranked \in Rankings(candidates) :
       \E response \in Synthesize(ranked, provider) :
         synthesis' = Some([provider |-> provider, response |-> response])
  /\ UNCHANGED <<askPageVars, tab, authCall, badge, selectedGroups, deleted,
                 themeVars, otherCalls, extraVars,
                 inFlight>>

\* POST /api/ask in the backend, for the Ask in flight: the hits of the
\* search are retrieved and the answer is synthesized.
ServeAsk(hits, provider) ==
  /\ askCall # Null
  /\ \E response \in Synthesize(Retrieve(hits), provider) :
       synthesis' = Some([provider |-> provider, response |-> response,
                          hits |-> hits,
                          question |-> askCall[1].body.question])
  /\ UNCHANGED <<askPageVars, tab, authCall, badge, selectedGroups, deleted,
                 themeVars, otherCalls, extraVars,
                 inFlight>>

\* handleAsk, after `await ask(...)` resolved with the backend's response.
AskDelivered ==
  /\ askCall # Null
  /\ synthesis # Null
  /\ "hits" \in DOMAIN synthesis[1]
  /\ synthesis[1].question = askCall[1].body.question
  /\ AskOk(synthesis[1].response)

\* AnswerCard's source list: one SourceCard per source, with its key and its
\* index, in the order of data.sources.
SourceCards(data) ==
  [i \in 1..Len(data.sources) |->
     [key |-> data.sources[i].id, index |-> i - 1, source |-> data.sources[i]]]

\* SourceCard's heading: "Source {index + 1}".
SourceLabel(card) == card.index + 1

----------------------------------------------------------------------------
(* ConfidenceBadge *)

\* The confidences a badge is rendered for, in thousandths (0.000 .. 1.000).
Confidences == 0..1000

\* The thousandths c for which the double c/1000 * 100 lies just below the
\* half c/10 it stands for (0.145 * 100 = 14.499999999999998, ...).
FloatTiesDown == {145, 285, 565, 575}

\* Math.round(confidence * 100): the nearest integer, a half going up.
Percent(c) == IF c \in FloatTiesDown THEN c \div 10 ELSE (c + 5) \div 10

\* Mutant of ConfidenceBadge: the percentage is cut off, not rounded.
ConfidenceBadgeTruncates(c) ==
  LET pct == c \div 10 IN
  [confidence |-> c,
   pct |-> pct,
   level |-> IF pct >= 70 THEN "high" ELSE IF pct >= 40 THEN "medium" ELSE "low"]

\* What ConfidenceBadge renders for the prop `confidence`: the percentage
\* and the level its colours are chosen by.
ConfidenceBadge(c) ==
  LET pct == Percent(c) IN
  [confidence |-> c,
   pct |-> pct,
   level |-> IF pct >= 70 THEN "high" ELSE IF pct >= 40 THEN "medium" ELSE "low"]

\* A badge is rendered for the confidence c.
RenderBadge(c) ==
  /\ badge' = Some(ConfidenceBadge(c))
  /\ UNCHANGED <<askPageVars, tab, authCall, selectedGroups, deleted, restVars>>

----------------------------------------------------------------------------
(* Specifications *)

\* Session, Ask and Refine.
NextRefine ==
  \/ Login
  \/ Logout
  \/ \E v \in Questions : SetQuestion(v)
  \/ SubmitQuestion
  \/ \E data \in AskResponses : AskOk(data)
  \/ \E kind \in FailureKinds : AskFail(kind)
  \/ \E id \in SnippetIds : handleToggleContextSource(id)
  \/ \E prompt \in Prompts : SubmitRefinement(prompt)
  \/ /\ refineCall # Null
     /\ \E refined \in RefineResponses(refineCall[1].body) : RefineOk(refined)
  \/ \E kind \in FailureKinds : RefineFail(kind)
  \/ \E c \in {DefaultCloseness, SliderMax} : SetAnswerCloseness(c)

SpecRefine == Init /\ [][NextRefine]_vars


\* Session, scope selector and Ask.
NextScope ==
  \/ Login
  \/ Logout
  \/ GroupsOk(BackendGroups)
  \/ \E kind \in FailureKinds : GroupsFail(kind)
  \/ ScopeSnippetsOk(BackendSnippets)
  \/ \E kind \in FailureKinds : ScopeSnippetsFail(kind)
  \/ \E m \in ScopeModes : SetScopeMode(m)
  \/ \E name \in Range(BackendGroups) : handleToggleGroup(name)
  \/ \E id \in SnippetIds : handleToggleSnippet(id)
  \/ SetQuestion(<<"y">>)
  \/ SubmitQuestion
  \/ \E data \in AskResponses : AskOk(data)
  \/ \E kind \in FailureKinds : AskFail(kind)

SpecScope == Init /\ [][NextScope]_vars

\* Session, answer options and Ask.
NextOptions ==
  \/ Login
  \/ Logout
  \/ \E c \in 0..SliderMax : SetAnswerCloseness(c)
  \/ \E b \in BOOLEAN : SetUseHyde(b)
  \/ \E b \in BOOLEAN : SetUseKeywordRerank(b)
  \/ \E code \in LanguageCodes : SetQuestionLanguage(code)
  \/ SetQuestion(<<"y">>)
  \/ SubmitQuestion
  \/ \E data \in AskResponses : AskOk(data)
  \/ \E kind \in FailureKinds : AskFail(kind)

SpecOptions == Init /\ [][NextOptions]_vars

\* Session, every slider position, Ask and Refine.
NextCloseness ==
  \/ Login
  \/ Logout
  \/ \E c \in 0..SliderMax : SetAnswerCloseness(c)
  \/ SetQuestion(<<"y">>)
  \/ SubmitQuestion
  \/ \E data \in AskResponses : AskOk(data)
  \/ \E kind \in FailureKinds : AskFail(kind)
  \/ SubmitRefinement(<<"p", " ">>)
  \/ /\ refineCall # Null
     /\ \E refined \in RefineResponses(refineCall[1].body) : RefineOk(refined)
  \/ \E kind \in FailureKinds : RefineFail(kind)

SpecCloseness == Init /\ [][NextCloseness]_vars

\* Login, registration, the session's user and the tabs.
NextSession ==
  \/ \E m \in Modes : SetMode(m)
  \/ \E v \in Emails : SetEmail(v)
  \/ \E v \in Passwords : SetPassword(v)
  \/ LoginRegisterSubmit
  \/ LoginOk
  \/ \E message \in AuthErrors : AuthFail(message)
  \/ RegisterOk
  \/ BackToLogin
  \/ Logout
  \/ \E header \in meCalls : MeOk(header)
  \/ \E header \in meCalls, kind \in FailureKinds : MeFail(header, kind)
  \/ \E t \in Tabs : SetTab(t)

SpecSession == Init /\ [][NextSession]_vars

\* The Collection page: its filters and the list requests they start.
NextFilters ==
  \/ \E t \in {"ask", "collection"} : SetTab(t)
  \/ Logout
  \/ Login
  \/ GroupsOk(BackendGroups)
  \/ \E name \in Range(BackendGroups) : handleCollectionToggleGroup(name)
  \/ handleCollectionClearGroups
  \/ toggleLanguage("de")
  \/ \E b \in BOOLEAN : SetShowTranslations(b)
  \/ \E call \in listCalls : ListOk(call)
  \/ \E call \in listCalls, kind \in FailureKinds : ListFail(call, kind)
  \/ \E kind \in FailureKinds \cup {"ok"} : OrphanSettles("list", kind)

SpecFilters == Init /\ [][NextFilters]_vars

\* The Collection page: the delete dialog and its requests.
NextDelete ==
  \/ \E t \in {"ask", "collection"} : SetTab(t)
  \/ SetShowTranslations(TRUE)
  \/ \E call \in listCalls : ListOk(call)
  \/ \E call \in listCalls : ListFail(call, "http")
  \/ \E call \in {"list", "deleteList"} : OrphanSettles(call, "ok")
  \/ \E id \in SnippetIds : OpenDelete(id)
  \/ CancelDelete
  \/ handleDelete
  \/ \E call \in deleteCalls : DeleteOk(call)
  \/ \E call \in deleteCalls, kind \in {"unauthorized", "http"} :
        DeleteFail(call, kind)

SpecDelete == Init /\ [][NextDelete]_vars

\* The Collection page: AddSnippetModal and its uploads.
NextUpload ==
  \/ \E t \in {"ask", "collection"} : SetTab(t)
  \/ OpenAddModal
  \/ CloseAddModal
  \/ \E b \in BOOLEAN : SetAnonymize(b)
  \/ \E files \in Selections : handleFileChange(files, Null)
  \/ \E files \in FolderSelections : handleFolderChange(files)
  \/ \E call \in UNION {v.uploads : v \in Range(collectionView)} :
        UploadOk(call)
  \/ \E call \in UNION {v.uploads : v \in Range(collectionView)},
         kind \in FailureKinds : UploadFail(call, kind)
  \/ \E call \in listCalls : ListOk(call)
  \/ \E kind \in {"ok", "unauthorized"} : OrphanSettles("upload", kind)

SpecUpload == Init /\ [][NextUpload]_vars

\* The theme: selections, the operating system, the browser's storage, and
\* closing and reopening the page.
NextTheme ==
  \/ \E t \in Themes : SetTheme(t)
  \/ OsPreferenceChange
  \/ \E b \in BOOLEAN : SetStorageAccess(b)
  \/ \E v \in {Null, Some("blue")} : StorageChanged(v)
  \/ Reopen
  \/ SetQuestion(<<"y">>)

SpecTheme == Init /\ [][NextTheme]_vars

\* The backend answering Asks, with and without a generation capability.
NextSynthesis ==
  \E candidates \in CandidateSets, provider \in Providers :
    BackendAsk(candidates, provider)

SpecSynthesis == Init /\ [][NextSynthesis]_vars

\* Asks answered by the backend's retrieval and synthesis, and displayed.
NextRanking ==
  \/ Login
  \/ Logout
  \/ SetQuestion(<<"y">>)
  \/ SubmitQuestion
  \/ \E hits \in HitSets, provider \in Providers : ServeAsk(hits, provider)
  \/ AskDelivered
  \/ \E kind \in FailureKinds : AskFail(kind)

SpecRanking == Init /\ [][NextRanking]_vars

\* The confidence badge over every confidence.
NextBadge == \E c \in Confidences : RenderBadge(c)

SpecBadge == Init /\ [][NextBadge]_vars

\* Editing the snippet of a displayed source.
NextEdit ==
  \/ Login
  \/ SetQuestion(<<"y">>)
  \/ SubmitQuestion
  \/ AskOk([answer |-> "a2", sources |-> <<Source(2, 60)>>,
            answer_confidence |-> 60])
  \/ \E metadata \in Metadatas : setSourceToEdit(2, metadata)
  \/ \E field \in DOMAIN EditInputs :
        \E value \in EditInputs[field] : SetEditField(field, value)
  \/ EditSubmit
  \/ \E call \in updateCalls : UpdateOk(call)
  \/ \E call \in updateCalls, kind \in FailureKinds : UpdateFail(call, kind)
  \/ CancelEdit

SpecEdit == Init /\ [][NextEdit]_vars

\* Every authenticated call answered with the status 401.
NextUnauthorized ==
  \/ LoginAs(ADMIN_TOKEN)
  \/ \E header \in meCalls : MeOk(header)
  \/ \E header \in meCalls : MeFail(header, "unauthorized")
  \/ \E t \in Tabs : SetTab(t)
  \/ SetScopeMode("snippets")
  \/ GroupsFail("unauthorized")
  \/ ScopeSnippetsFail("unauthorized")
  \/ SetQuestion(<<"y">>)
  \/ SubmitQuestion
  \/ AskOk([answer |-> "a2", sources |-> <<Source(2, 60)>>,
            answer_confidence |-> 60])
  \/ AskFail("unauthorized")
  \/ SubmitRefinement(<<"p", " ">>)
  \/ RefineFail("unauthorized")
  \/ OpenDocument
  \/ \E call \in otherCalls : OtherOk(call)
  \/ \E call \in otherCalls : OtherFail(call, "unauthorized")
  \/ \E call \in listCalls : ListFail(call, "unauthorized")
  \/ OpenAddModal
  \/ handleFileChange(<<B_TXT>>, Null)
  \/ \E call \in UNION {v.uploads : v \in Range(collectionView)} :
        UploadFail(call, "unauthorized")

SpecUnauthorized == Init /\ [][NextUnauthorized]_vars

\* Every operation of the client.
Next ==
  \/ NextRefine
  \/ NextScope
  \/ NextOptions
  \/ NextCloseness
  \/ NextSession
  \/ NextFilters
  \/ NextDelete
  \/ NextUpload
  \/ NextTheme
  \/ NextSynthesis
  \/ NextRanking
  \/ NextBadge
  \/ NextUnauthorized
  \/ NextEdit

Spec == Init /\ [][Next]_vars

\* A pending Refine eventually gets its response or its error.
RefineSettles ==
  \/ /\ refineCall # Null
     /\ \E refined \in RefineResponses(refineCall[1].body) : RefineOk(refined)
  \/ \E kind \in FailureKinds : RefineFail(kind)

\* Session, Ask and Refine with one question and a fixed closeness, under the
\* assumption that a pending refine request settles.
NextRefineLive ==
  \/ Login
  \/ Logout
  \/ SetQuestion(<<"y">>)
  \/ SubmitQuestion
  \/ \E data \in AskResponses : AskOk(data)
  \/ \E kind \in FailureKinds : AskFail(kind)
  \/ \E id \in SnippetIds : handleToggleContextSource(id)
  \/ \E prompt \in Prompts : SubmitRefinement(prompt)
  \/ RefineSettles

SpecRefineFair ==
  Init /\ [][NextRefineLive]_vars /\ WF_vars(RefineSettles)

\* The ask request settles: a response, a rejected fetch, or an error status.
AskSettles ==
  \/ \E data \in AskResponses : AskOk(data)
  \/ \E kind \in FailureKinds : AskFail(kind)

\* Session and Ask with questions that need trimming and two closeness
\* settings, under the assumption that a pending ask request settles.
NextAskLive ==
  \/ Login
  \/ Logout
  \/ \E v \in Questions : SetQuestion(v)
  \/ SubmitQuestion
  \/ \E c \in {DefaultCloseness, SliderMax} : SetAnswerCloseness(c)
  \/ AskSettles

SpecAskFair ==
  Init /\ [][NextAskLive]_vars /\ WF_vars(AskSettles)

\* Ask and Refine with blank and non-blank questions and instructions.
NextBlank ==
  \/ Login
  \/ Logout
  \/ \E v \in {<<>>, <<" ", " ">>, <<"y">>} : SetQuestion(v)
  \/ SubmitQuestion
  \/ AskSettles
  \/ \E id \in SnippetIds : handleToggleContextSource(id)
  \/ \E prompt \in Prompts : SubmitRefinement(prompt)
  \/ RefineSettles

SpecBlank == Init /\ [][NextBlank]_vars

----------------------------------------------------------------------------
(* Steps the claims speak about *)

RefineSent == refineCall = Null /\ refineCall' # Null
RefineSucceeded ==
  /\ refineCall # Null
  /\ \E refined \in RefineResponses(refineCall[1].body) : RefineOk(refined)
AskSent == askCall = Null /\ askCall' # Null

\* The user can submit a refinement and it will be sent.
CanRefine == AnswerCardShown /\ ~refining

----------------------------------------------------------------------------
(* Claims *)

\* C1: a successful Refine changes only the answer text and the answer
\* confidence: the source list displayed after it is the list displayed
\* before it and the list passed in the refine request.
C1_RefineKeepsDisplayedSources ==
  [][RefineSucceeded =>
       /\ result'[1].sources = refineCall[1].body.sources
       /\ AnswerCardShown => result'[1].sources = result[1].sources]_vars

\* C2: when an Ask was started while a Refine was in flight, then once both
\* have settled the displayed result is that Ask's response, or nothing if the
\* Ask failed, whatever the order of the two responses.
C2_LaterAskWins ==
  (overlapAsk.st = "done" /\ refineCall = Null) => result = overlapAsk.expect


\* C3 as claimed: a failed Refine leaves the displayed answer, sources and
\* confidence unchanged, records an error, and the user can immediately retry a
\* refinement on that same pre-refinement answer.
C3_FailedRefineAlwaysRetryable ==
  [][\A kind \in FailureKinds :
       RefineFail(kind) =>
         /\ result' = result
         /\ error' # Null
         /\ result' = Some(refineCall[1].result)
         /\ CanRefine']_vars

\* C3 as amended: a failed Refine leaves the result unchanged, records an
\* error and leaves Refining; the pre-refinement answer is still the result
\* unless an Ask was started meanwhile, and the user can immediately retry on
\* it unless the session ended (a 401 response, or a logout) or an Ask was
\* started meanwhile.
C3_FailedRefineRecoverable ==
  [][\A kind \in FailureKinds :
       RefineFail(kind) =>
         /\ result' = result
         /\ error' # Null
         /\ refining' = FALSE
         /\ overlapAsk.st = "none" => result' = Some(refineCall[1].result)
         /\ (overlapAsk.st = "none" /\ LoggedIn /\ kind # "unauthorized")
              => CanRefine']_vars

\* C3 witness: a Refine failed with a server error and the form is usable
\* again on the answer that was being refined.
C3_Witness ==
  /\ error = Some("Refine failed: 500")
  /\ CanRefine
  /\ result[1].answer = "a1"

\* C4: every Refine that enters Refining leaves it again once its request
\* settles, and a Refine is only entered from a displayed result.
C4_RefiningReturnsToIdle ==
  /\ refining ~> ~refining
  /\ [](refining => refineCall # Null)
  /\ [][(~refining /\ refining') => AnswerCardShown]_vars

\* C4 witness: a refinement was entered and has been left.
C4_Witness ==
  /\ ~refining
  /\ refineCall = Null
  /\ result # Null
  /\ result[1].answer \in RefinedAnswers

\* C5: the selection sent with a refine request is a subset of the ids of the
\* sources sent with it; in every state the selection is a subset of the ids
\* of the result's sources, and it is empty while and right after an Ask.
C5_SelectionWithinSources ==
  /\ Range(contextSourceIds) \subseteq
       (IF result = Null THEN {} ELSE SourceIds(result[1].sources))
  /\ loading => contextSourceIds = <<>>
  /\ refineCall # Null =>
       Range(refineCall[1].body.selected_source_ids) \subseteq
         SourceIds(refineCall[1].body.sources)

\* C6: every refine request carries the displayed answer as original_answer,
\* the trimmed question of the Ask that produced the displayed sources as
\* original_question, and the closeness currently set.
C6_RefineCarriesFullContext ==
  [][RefineSent =>
       /\ refineCall'[1].body.original_answer = result[1].answer
       /\ Some(refineCall'[1].body.original_question) = shownAsk
       /\ refineCall'[1].body.answer_closeness = answerCloseness]_vars

C8_ScopeModeRestrictsAsk ==
  [][AskSent =>
       /\ scopeMode = "snippets" =>
            /\ askCall'[1].body.snippet_ids = Some(selectedSnippetIds)
            /\ askCall'[1].body.group_names = Null
       /\ scopeMode = "groups" =>
            /\ askCall'[1].body.group_names = Some(selectedGroupNames)
            /\ askCall'[1].body.snippet_ids = Null]_vars

\* C9: no ask request body holds both group_names and snippet_ids.
C9_OneScopeVariant ==
  askCall # Null =>
    ~(askCall[1].body.group_names # Null /\ askCall[1].body.snippet_ids # Null)

\* C9 witness: an Ask is in flight while both a group and a snippet are ticked.
C9_Witness ==
  /\ askCall # Null
  /\ selectedGroupNames # <<>>
  /\ selectedSnippetIds # <<>>

\* The body of an Ask for question q sent with nothing changed in the UI.
DefaultAskBody(q) ==
  [question |-> q, group_names |-> Null, snippet_ids |-> Null,
   languages |-> Null, answer_closeness |-> Some(DefaultCloseness),
   use_hyde |-> Some(FALSE), use_keyword_rerank |-> Some(TRUE)]

OptionsUntouched ==
  /\ answerCloseness = DefaultCloseness
  /\ useHyde = FALSE
  /\ useKeywordRerank = TRUE
  /\ questionLanguage = ""
  /\ scopeMode = "all"

\* C10: every ask request carries the option values set at submission, and
\* with no option changed these are closeness 0.5, no HyDE, keyword rerank,
\* no language filter and scope All.
C10_AskCarriesCurrentOptions ==
  [][AskSent =>
       /\ askCall'[1].body.question = Trim(question)
       /\ askCall'[1].body.answer_closeness = Some(answerCloseness)
       /\ askCall'[1].body.use_hyde = Some(useHyde)
       /\ askCall'[1].body.use_keyword_rerank = Some(useKeywordRerank)
       /\ askCall'[1].body.languages =
            (IF questionLanguage = "" THEN Null ELSE Some(<<questionLanguage>>))
       /\ OptionsUntouched =>
            askCall'[1].body = DefaultAskBody(Trim(question))]_vars

\* C10 witness: an Ask sent with every option changed from its default.
C10_Witness ==
  /\ askCall # Null
  /\ askCall[1].body.answer_closeness = Some(SliderMax)
  /\ askCall[1].body.use_hyde = Some(TRUE)
  /\ askCall[1].body.use_keyword_rerank = Some(FALSE)
  /\ askCall[1].body.languages = Some(<<"fr">>)

\* C11: the closeness setting is always one of 0, 0.1, ..., 1.0, and so is the
\* answer_closeness of every ask request and of every refine request sent.
C11_ClosenessInRange ==
  /\ answerCloseness \in 0..SliderMax
  /\ askCall # Null =>
       /\ askCall[1].body.answer_closeness # Null
       /\ askCall[1].body.answer_closeness[1] \in 0..SliderMax
  /\ refineCall # Null =>
       refineCall[1].body.answer_closeness \in 0..SliderMax

\* An ask request at the upper end of the range and a refine request at the
\* lower end are in flight.
C11_Witness ==
  /\ askCall # Null
  /\ askCall[1].body.answer_closeness = Some(SliderMax)
  /\ refineCall # Null
  /\ refineCall[1].body.answer_closeness = 0

\* C12 as stated: the badge is high exactly when the confidence is at least
\* 0.70, medium exactly when it is at least 0.40 and below 0.70, low exactly
\* when it is below 0.40; the percentage shown is the confidence rounded.
C12_TiersByConfidence ==
  badge # Null =>
    LET c == badge[1].confidence IN
    /\ badge[1].level = "high" <=> c >= 700
    /\ badge[1].level = "medium" <=> (400 <= c /\ c < 700)
    /\ badge[1].level = "low" <=> c < 400
    /\ 10 * badge[1].pct - c \in -5..5

\* C12, amended: the tier is decided on the percentage shown: high exactly
\* when it is at least 70, medium exactly when it is 40 to 69, low exactly
\* when it is below 40; the percentage shown is the confidence rounded to the
\* nearest percent.
C12_TiersByRoundedPercent ==
  badge # Null =>
    LET c == badge[1].confidence
        pct == badge[1].pct
    IN /\ badge[1].level = "high" <=> pct >= 70
       /\ badge[1].level = "medium" <=> (40 <= pct /\ pct <= 69)
       /\ badge[1].level = "low" <=> pct < 40
       /\ 10 * pct - c \in -5..5
       /\ pct \in 0..100

\* A confidence just below 0.70 is rendered as 70 %, high.
C12_Witness ==
  /\ badge # Null
  /\ badge[1].confidence = 697
  /\ badge[1].pct = 70
  /\ badge[1].level = "high"

\* C13: the Users entry of the sidebar and the Users view are rendered only
\* while the owner of the current token has the role admin.
C13_UsersViewAdminsOnly ==
  UsersEntryShown => Me(token[1]).role = "admin"

\* C18: a successful registration stores no token and leaves the user on the
\* login / registration screen; a token is stored, and the main screen
\* entered, only by a successful login.
C18_RegistrationGrantsNoAccess ==
  [][/\ RegisterOk =>
          /\ UNCHANGED authVars
          /\ ~LoggedIn'
          /\ loginRegister' # Null
     /\ ((~LoggedIn /\ LoggedIn') \/ (storedToken' # Null /\ storedToken' # storedToken))
          => (LoginOk /\ authCall[1].mode = "login")]_vars

\* A registration has succeeded: its notice is shown and no token is held.
C18_Witness ==
  /\ loginRegister # Null
  /\ loginRegister[1].registerSuccess
  /\ authCall = Null
  /\ token = Null
  /\ storedToken = Null

\* A deleteSnippet request is sent by this step.
DeleteSent == \E c \in deleteCalls' : c.live /\ c \notin deleteCalls

\* C14: a delete request is sent only by confirming the open delete dialog,
\* and for the snippet that dialog shows; cancelling or closing the dialog
\* sends none; on success the dialog is closed and the list is requested anew.
C14_DeleteOnlyAfterConfirm ==
  [][/\ DeleteSent =>
          /\ handleDelete
          /\ \A c \in deleteCalls' \ deleteCalls :
               collectionView[1].snippetToDelete = Some(c.id)
     /\ CancelDelete => deleteCalls' = deleteCalls
     /\ \A call \in deleteCalls :
          (DeleteOk(call) /\ call.live) =>
            /\ collectionView'[1].snippetToDelete = Null
            /\ collectionView'[1].loading
            /\ ListCall(call.params, TRUE) \in listCalls']_vars

\* The delete of the second snippet has been confirmed and has succeeded.
C14_Witness ==
  /\ deleted = {2}
  /\ collectionView # Null
  /\ collectionView[1].snippetToDelete = Null
  /\ \E c \in listCalls : c.afterDelete

\* C15: once no list request of the rendered Collection view is in flight
\* (and the last one did not fail), the list shown is the response for the
\* groups, languages and translations flag selected now.
C15_ListMatchesFilters ==
  (/\ collectionView # Null
   /\ listCalls = {}
   /\ collectionView[1].error = Null)
  => collectionView[1].snippets =
       ListResponse(RefreshParams(selectedGroups, collectionView[1]))

\* C16: with the effects settled, dark styling is applied iff the theme is
\* dark, or the theme is system and the OS prefers dark; a change of the OS
\* preference is followed when the theme is system and changes nothing when
\* it is light or dark.
C16_SystemFollowsOs ==
  /\ [](dark <=> (theme = "dark" \/ (theme = "system" /\ prefersDark)))
  /\ [][OsPreferenceChange =>
          /\ theme = "system" => dark' = prefersDark'
          /\ theme # "system" => dark' = dark]_vars

\* System was selected after another theme, and the OS then switched to dark.
C16_Witness ==
  /\ chosenTheme = Some("system")
  /\ theme = "system"
  /\ storedTheme = Some("system")
  /\ prefersDark
  /\ dark

\* The stored value cannot be read, is missing, or is no theme.
StoredThemeUnusable ==
  ~storageOk \/ storedTheme = Null \/ storedTheme[1] \notin Themes

SupportedName(name) ==
  \E ext \in {<<".", "t", "x", "t">>, <<".", "d", "o", "c", "x">>,
              <<".", "p", "d", "f">>} :
    /\ Len(name) >= Len(ext)
    /\ \A i \in 1..Len(ext) :
         ToLowerChar(name[Len(name) - Len(ext) + i]) = ext[i]

\* The upload requests this step sends.
UploadsSent ==
  IF collectionView' = Null THEN {}
  ELSE collectionView'[1].uploads
         \ (IF collectionView = Null THEN {} ELSE collectionView[1].uploads)

\* This step is handleFileChange for a selection that is not empty.
FilesChosen ==
  /\ collectionView' # Null
  /\ collectionView'[1].addModal # Null
  /\ collectionView'[1].addModal[1].input.files # <<>>
  /\ handleFileChange(collectionView'[1].addModal[1].input.files,
                      collectionView'[1].addModal[1].input.group)

\* C19: every upload request holds at least one file, and only files whose
\* names end in .txt, .docx or .pdf (letter case ignored), namely those of
\* the selection; a selection without such a file sends no request, shows
\* the error message and leaves uploading false.
C19_OnlyDocumentsUploaded ==
  [][/\ \A c \in UploadsSent :
          /\ c.files # <<>>
          /\ \A i \in 1..Len(c.files) : SupportedName(c.files[i])
     /\ FilesChosen =>
          LET modal == collectionView'[1].addModal[1] IN
          IF \E i \in 1..Len(modal.input.files) :
               SupportedName(modal.input.files[i])
          THEN UploadsSent # {}
               /\ \A c \in UploadsSent :
                    c.files = SelectSeq(modal.input.files, SupportedName)
          ELSE /\ UploadsSent = {}
               /\ ~modal.uploading
               /\ modal.uploadMessage =
                    Some([type |-> "err", text |-> NO_DOCUMENTS_MSG])]_vars

\* B.TXT alone is in flight, sent by an earlier modal; the open modal shows
\* the error for the selection of txt and e.exe.
C19_Witness ==
  /\ AddModalShown
  /\ ~collectionView[1].addModal[1].uploading
  /\ collectionView[1].addModal[1].input.files =
       <<TXT, E_EXE>>
  /\ collectionView[1].addModal[1].uploadMessage =
       Some([type |-> "err", text |-> NO_DOCUMENTS_MSG])
  /\ \E c \in collectionView[1].uploads :
       c.files = <<B_TXT>>

\* C20: an Ask answered without a generation capability (none configured, or
\* none reachable) over candidates that are not empty has the text of the
\* top-ranked source as its answer and that source's confidence as its
\* answer confidence.
C20_DeterministicFallback ==
  (/\ synthesis # Null
   /\ synthesis[1].provider # "available"
   /\ synthesis[1].response.sources # <<>>)
  => /\ synthesis[1].response.answer =
          synthesis[1].response.sources[1].text
     /\ synthesis[1].response.answer_confidence =
          synthesis[1].response.sources[1].snippet_confidence

\* The example of the specification: the refund snippet (0.85) ranked before
\* the shipping snippet (0.20), no generation capability.
C20_Witness ==
  /\ synthesis # Null
  /\ synthesis[1].provider = "none"
  /\ synthesis[1].response =
       [answer |-> "Refund window is 30 days.",
        sources |-> <<Candidate(1, 85), Candidate(2, 20)>>,
        answer_confidence |-> 85]

\* C21: the sources of every Ask result are at most top_k and ordered by
\* non-increasing confidence, and AnswerCard shows them in the order
\* received, source i as "Source i".
C21_SourcesRankedAndShownInOrder ==
  result # Null =>
    LET sources == result[1].sources
        cards == SourceCards(result[1])
    IN /\ Len(sources) <= TopK
       /\ \A i, j \in 1..Len(sources) :
            i < j => sources[i].snippet_confidence >= sources[j].snippet_confidence
       /\ Len(cards) = Len(sources)
       /\ \A i \in 1..Len(sources) :
            cards[i].source = sources[i] /\ SourceLabel(cards[i]) = i

\* A result with top_k sources of different confidence is displayed.
C21_Witness ==
  /\ AnswerCardShown
  /\ Len(result[1].sources) = TopK
  /\ result[1].sources[1].snippet_confidence = 85
  /\ result[1].sources[TopK].snippet_confidence = 20

\* C22: no snippet id appears twice in the sources of a result; a snippet
\* hit through its text and through an example question is one source, of
\* the owning snippet, with the higher of the two scores; the keys of the
\* source cards displayed are distinct.
C22_NoSnippetTwice ==
  /\ (synthesis # Null /\ "hits" \in DOMAIN synthesis[1]) =>
       LET sources == synthesis[1].response.sources
           hits == synthesis[1].hits
       IN /\ \A i, j \in 1..Len(sources) :
               i # j => sources[i].id # sources[j].id
          /\ \A i \in 1..Len(sources) :
               /\ \E h \in hits : /\ h.snippet = sources[i].id
                                  /\ h.score = sources[i].snippet_confidence
               /\ \A h \in hits :
                    h.snippet = sources[i].id
                      => h.score <= sources[i].snippet_confidence
  /\ result # Null =>
       LET cards == SourceCards(result[1]) IN
       \A i, j \in 1..Len(cards) : i # j => cards[i].key # cards[j].key

\* Snippet 1 was hit through its text (0.20) and an example question (0.85)
\* and is displayed once, with 0.85.
C22_Witness ==
  /\ AnswerCardShown
  /\ synthesis # Null
  /\ synthesis[1].hits = {Hit(1, "text", 20), Hit(1, "example", 85)}
  /\ result[1] = synthesis[1].response
  /\ result[1].sources = <<Candidate(1, 85)>>

\* The login screen is shown and no token is stored.
ForcedOut == token = Null /\ storedToken = Null /\ loginRegister # Null

\* C23: whenever a call to an authenticated endpoint (ask, refine, snippets,
\* groups, users, me, upload, document) is answered with 401, the stored token
\* is removed, the login screen is shown, and the caller handles a failure:
\* handleAsk / handleRefine show the error, loadUsers and the document link
\* catch the Error, the scope list is emptied, the groups are left as they
\* were, and CollectionView is unmounted with its dialogs.
C23_ForcedLogoutOn401 ==
  [][ /\ AskFail("unauthorized") =>
           ForcedOut' /\ error' = Some("Ask failed: 401") /\ result' = result
      /\ RefineFail("unauthorized") =>
           ForcedOut' /\ error' = Some("Refine failed: 401")
                      /\ result' = result
      /\ GroupsFail("unauthorized") => ForcedOut' /\ groups' = groups
      /\ ScopeSnippetsFail("unauthorized") =>
           ForcedOut' /\ snippetsForScope' = <<>>
      /\ (\E header \in meCalls : MeFail(header, "unauthorized")) =>
           ForcedOut'
      /\ (\E call \in otherCalls : OtherFail(call, "unauthorized")) =>
           ForcedOut' /\ caught' # Null
                      /\ caught'[1].call \in otherCalls \ otherCalls'
      /\ (\/ \E call \in listCalls : ListFail(call, "unauthorized")
          \/ \E call \in UNION {v.uploads : v \in Range(collectionView)} :
                UploadFail(call, "unauthorized")) =>
           ForcedOut' /\ collectionView' = Null ]_vars

\* C23 witness: the login screen is shown with no stored token after a
\* listUsers() call was answered with 401 while the earlier Ask's error, also
\* a 401, is still held.
C23_Witness ==
  /\ ForcedOut
  /\ caught = Some([call |-> "listUsers", message |-> "Unauthorized"])
  /\ error = Some("Ask failed: 401")


\* C24: while the token state is null (the login screen is shown) no auth
\* token is held in the browser's storage, also after a getMe call failed
\* with a 401, another error status or a network error.
C24_NoStoredTokenOnLoginScreen ==
  token = Null => storedToken = Null

\* C25: a session that starts on the page (the token state changes from null
\* to a token) starts without what an earlier session on the page left: no
\* displayed answer with its sources, no question, no snippet list for the
\* scope selection, and no selected snippet ids that an Ask of the new user
\* would send.
C25_NoLeakAcrossSessions ==
  [][(token = Null /\ token' # Null) =>
        /\ result' = Null
        /\ question' = <<>>
        /\ snippetsForScope' = <<>>
        /\ selectedSnippetIds' = <<>>]_vars

\* C26: at most one ask() call awaits its response at any time, and only
\* while loading; at most one refineAnswer() call awaits its response, and only
\* while refining.
C26_OneAskOneRefineInFlight ==
  /\ inFlight.ask <= 1
  /\ inFlight.refine <= 1
  /\ inFlight.ask = 1 => loading
  /\ inFlight.refine = 1 => refining

\* C26 witness: an Ask and a Refine are in flight together, with a question
\* in the input that the disabled form cannot submit.
C26_Witness ==
  /\ inFlight = [ask |-> 1, refine |-> 1]
  /\ Trim(question) # <<>>
  /\ AskPageShown

\* C27: starting an Ask clears the result, the error and the context-source
\* selection; when an Ask settles that no Refine was in flight during, exactly
\* one of result and error is set, the response on success and the error on
\* failure, so that no earlier answer is displayed beside the error.
C27_AskSetsResultOrError ==
  [][/\ (inFlight'.ask > inFlight.ask) =>
          result' = Null /\ error' = Null /\ contextSourceIds' = <<>>
     /\ (inFlight'.ask < inFlight.ask /\ overlapAsk.st # "pending") =>
          /\ (result' # Null) # (error' # Null)
          /\ \A data \in AskResponses :
               AskOk(data) => result' = Some(data) /\ error' = Null
          /\ \A kind \in FailureKinds :
               AskFail(kind) => error' # Null /\ result' = Null]_vars

\* C27 witness: an Ask that no Refine overlapped has failed; its error is
\* shown and no answer.
C27_Witness ==
  /\ AskPageShown
  /\ inFlight.ask = 0
  /\ overlapAsk = NoOverlap
  /\ originalQuestion # <<>>
  /\ error = Some("Ask failed: 500")
  /\ result = Null

\* C28: every Ask that starts finishes once its request settles: loading is
\* set when the request is sent, stays set exactly while the request is in
\* flight, and is reset by a response, an error status and a network error
\* alike; the original question recorded, and the question sent, is the
\* trimmed text of the input.
C28_AskFinishes ==
  /\ loading ~> ~loading
  /\ [](loading <=> askCall # Null)
  /\ [][/\ (inFlight'.ask > inFlight.ask) =>
             /\ loading'
             /\ originalQuestion' = Trim(question)
             /\ askCall'[1].body.question = Trim(question)
        /\ (inFlight'.ask < inFlight.ask) => ~loading']_vars

\* C28 witness: the Ask of a question typed with surrounding blanks has
\* finished with a network error.
C28_Witness ==
  /\ ~loading
  /\ inFlight.ask = 0
  /\ question = <<" ", "x", " ">>
  /\ originalQuestion = <<"x">>
  /\ error = Some(BACKEND_UNREACHABLE_MSG)

\* A step that sends a request or changes what Ask and Refine display.
AskStateChanges ==
  <<result, error, loading, refining, contextSourceIds, originalQuestion,
    askCall, refineCall, inFlight>>' #
  <<result, error, loading, refining, contextSourceIds, originalQuestion,
    askCall, refineCall, inFlight>>

\* C29: submitting an empty or whitespace-only question sends no request and
\* leaves result, error, loading, the context-source selection and the
\* original question as they are; so does submitting an empty or
\* whitespace-only refinement instruction.
C29_BlankSubmitIsNoOp ==
  /\ Trim(question) = <<>> => ~ENABLED (SubmitQuestion /\ AskStateChanges)
  /\ \A prompt \in Prompts :
       Trim(prompt) = <<>> =>
         ~ENABLED (SubmitRefinement(prompt) /\ AskStateChanges)

\* C29 witness: a whitespace-only question is in the input while an answer
\* with a selected context source and an error of a failed refinement are
\* displayed, all of which an Ask would clear.
C29_Witness ==
  /\ AnswerCardShown
  /\ question = <<" ", " ">>
  /\ contextSourceIds # <<>>
  /\ error # Null
  /\ ~refining

EditedKeys ==
  {"language", "heading", "category", "linked_snippets", "example_questions"}

\* The value the form holds for an edited key, and whether it holds one.
FormValue(form, key) ==
  CASE key = "language" -> toLowerCase(Trim(form.language))
    [] key = "heading" -> Trim(form.heading)
    [] key = "category" -> Trim(form.category)
    [] key = "linked_snippets" -> Entries(form.linkedSnippets, ",")
    [] OTHER -> Entries(form.exampleQuestions, "\n")

\* C30: the metadata an update request carries when it is sent has every key of the snippet's
\* metadata that the form does not edit, with its value, and no other such
\* key; each of language, heading, category, linked_snippets and
\* example_questions is present exactly when its field is not blank (holds
\* text, or an entry for the two lists) and then has the field's value; null
\* is sent exactly when no key remains.
C30_EditKeepsOtherMetadata ==
  \A call \in {c \in updateCalls : c.live} :
    LET old == Spread(call.snippet.metadata)
        sent == Spread(call.metadata)
    IN /\ DOMAIN sent \ EditedKeys = DOMAIN old \ EditedKeys
       /\ \A key \in DOMAIN old \ EditedKeys : sent[key] = old[key]
       /\ \A key \in EditedKeys :
            /\ key \in DOMAIN sent <=> FormValue(call.form, key) # <<>>
            /\ key \in DOMAIN sent => sent[key] = FormValue(call.form, key)
       /\ call.metadata = Null <=> DOMAIN sent = {}

\* C30 witness: a snippet with a document link, a language and a heading is
\* saved with the heading blanked and a linked snippet entered: the request
\* keeps the link, drops the heading and adds the list.
C30_Witness ==
  \E call \in {c \in updateCalls : c.live} :
    /\ call.snippet.metadata # Null
    /\ DOMAIN call.snippet.metadata[1] =
         {"source_document_url", "language", "heading"}
    /\ call.metadata # Null
    /\ DOMAIN call.metadata[1] =
         {"source_document_url", "language", "linked_snippets"}
    /\ call.metadata[1]["source_document_url"] = <<"u">>
    /\ call.metadata[1]["language"] = <<"d", "e">>

====
